---- MODULE Spec2Model ----
(***************************************************************************)
(* Model of the ovozly call-processing pipeline (backend/ai, backend/core). *)
(*                                                                         *)
(* Conventions                                                             *)
(*   - a Python str is a sequence of one-character strings; str.strip,     *)
(*     str.split and " ".join are modelled on that representation;         *)
(*   - a falsy optional value (None, missing key, "" or []) is <<>>;       *)
(*   - times are exact integers in ticks (a tick is a fixed fraction of a  *)
(*     second), so midpoints and proportions are exact rationals;          *)
(*   - a dict is a record; list.copy()/dict.copy() are value copies.       *)
(***************************************************************************)
EXTENDS Integers, Sequences, FiniteSets, TLC

VARIABLES
    \* ---- merge (aisha_stt._merge_consecutive_speakers, audio_utils loop)
    segments,       \* the caller's diarization list handed to merge
    merged,         \* result of the first merge call (<<>> before)
    remerged,       \* result of merging the merged list again
    diar_data,      \* the list handed to split_audio_into_segments
    split_merged,   \* its local `merged` list, or raised (IndexError)
    mdone,          \* which merge operations have run
    \* ---- aisha_stt.transcribe_with_diarization
    diarization_segments,   \* argument
    merge_speakers,         \* argument
    max_workers,            \* argument
    audio_segments,         \* list of (idx, seg, chunk)
    workq,                  \* the executor's FIFO work queue (idx)
    running,                \* idx of the calls executing in pool threads
    future,                 \* idx -> future of the submitted call
    failed,                 \* history: idx -> the call met an error
    results,                \* the pre-sized result list
    yielded,                \* idx of the futures as_completed has handed out
    out_of_order,           \* history: a future was handed out before an earlier one
    final_result,           \* the returned list
    fpc,                    \* position of the calling thread
    \* ---- whisper_api.map_transcript_to_diarization
    whisper_result,         \* argument: [text, words, segments]
    diarization_data,       \* argument
    align_result,           \* the local list `result` before the merge
    aligned,                \* the returned list
    apc,                    \* "start" before the call, then the path taken
    \* ---- core.tasks.convert_audio_to_text (one run of the task)
    ppc,                    \* position of the task
    call_status,            \* call.status, the attribute of the loaded Call
    row_status,             \* the committed status of the call's row
    session_failed,         \* the session needs a rollback before further use
    task_updates,           \* the update_state calls of the run, in order
    events,                 \* history: the collaborator calls, in order
    job_id,                 \* local job_id
    last_check,             \* the last check_job call: response and outcome
    task_segments,          \* local diarization_segments
    diarization_with_text,  \* local
    analysis,               \* local: what analyze_conversation returned
    analysis_input,         \* history: the argument of analyze_conversation
    saved,                  \* what the final commit persisted
    task_exc,               \* the exception that left the task ("" if none)
    \* ---- the audio cuts of aisha_stt and audio_utils
    cut_windows,            \* the windows to cut, times in ticks
    aisha_cuts,             \* per window the slice bounds of transcribe_with_diarization
    split_cuts,             \* per window the slice bounds of split_audio_into_segments
    cdone,                  \* which of the two functions have cut
    \* ---- core.base_task.BaseTask (one instance, several task runs)
    sessions,               \* self.sessions: task id -> session
    tpc,                    \* task id -> position of that run
    opened,                 \* history: task id -> the session its before_start made
    popped,                 \* task id -> local `session` of after_return
    close_count,            \* history: session -> number of close() calls
    seen                    \* history: task id -> sessions the property returned to it

mergeVars == <<segments, merged, remerged, diar_data, split_merged, mdone>>
fanVars == <<diarization_segments, merge_speakers, max_workers, audio_segments,
             workq, running, future, failed, results, yielded, out_of_order,
             final_result, fpc>>
alignVars == <<whisper_result, diarization_data, align_result, aligned, apc>>
pipeVars == <<ppc, call_status, row_status, session_failed, task_updates, events,
              job_id, last_check, task_segments, diarization_with_text, analysis,
              analysis_input, saved, task_exc>>
cutVars == <<cut_windows, aisha_cuts, split_cuts, cdone>>
baseVars == <<sessions, tpc, opened, popped, close_count, seen>>
vars == <<mergeVars, fanVars, alignVars, pipeVars, cutVars, baseVars>>

(***************************************************************************)
(* Bounds                                                                  *)
(***************************************************************************)
MergeMaxLen == 3
MergeMaxTime == 2
FanMaxSegs == 3
FanMaxWorkers == 2
AlignMaxWindows == 2
AlignMaxTime == 2
AlignMaxTokens == 2
AlignMaxWords == 4
PipeMaxPolls == 2
PipeMaxSegs == 2

(***************************************************************************)
(* Python str helpers                                                      *)
(***************************************************************************)
SPACE == " "

RECURSIVE lstrip(_)
lstrip(s) == IF s # <<>> /\ Head(s) = SPACE THEN lstrip(Tail(s)) ELSE s

RECURSIVE rstrip(_)
rstrip(s) ==
    IF s # <<>> /\ s[Len(s)] = SPACE THEN rstrip(SubSeq(s, 1, Len(s) - 1)) ELSE s

\* str.strip()
strip(s) == rstrip(lstrip(s))

\* " ".join(parts)
RECURSIVE join(_)
join(parts) ==
    IF parts = <<>> THEN <<>>
    ELSE IF Len(parts) = 1 THEN parts[1]
    ELSE parts[1] \o <<SPACE>> \o join(Tail(parts))

\* str.split(): maximal runs of non-whitespace characters, in order
RECURSIVE splitLoop(_, _, _)
splitLoop(s, word, words) ==
    IF s = <<>> THEN (IF word = <<>> THEN words ELSE Append(words, word))
    ELSE IF Head(s) = SPACE
         THEN splitLoop(Tail(s), <<>>, IF word = <<>> THEN words ELSE Append(words, word))
         ELSE splitLoop(Tail(s), Append(word, Head(s)), words)

split(s) == splitLoop(s, <<>>, <<>>)

\* Python slice xs[a:b] for 0 <= a (0-based, end exclusive, clamped)
slice(xs, a, b) ==
    LET lo == IF a > Len(xs) THEN Len(xs) ELSE a
        hi == IF b > Len(xs) THEN Len(xs) ELSE b
    IN IF hi <= lo THEN <<>> ELSE SubSeq(xs, lo + 1, hi)

(***************************************************************************)
(* Diarization inputs                                                      *)
(***************************************************************************)
Speakers == {"A", "B"}

\* speaker labels are arbitrary strings; "" is the initial prev_speaker of
\* split_audio_into_segments
SpeakerLabels == {"", "A", "B"}

Window(sp, s, e) == [speaker |-> sp, start |-> s, end |-> e]

WindowsUpTo(maxTime, speakers) ==
    {Window(sp, s, e) : sp \in speakers, s \in 0..maxTime, e \in 0..maxTime} \
    {w \in [speaker : speakers, start : 0..maxTime, end : 0..maxTime] : w.end < w.start}

\* ordered diarization sequences: non-decreasing start, up to maxLen windows
OrderedSeqs(maxLen, maxTime, speakers) ==
    UNION {
        {S \in [1..n -> WindowsUpTo(maxTime, speakers)] :
            \A i \in 1..(n - 1) : S[i].start <= S[i + 1].start}
        : n \in 0..maxLen}

(***************************************************************************)
(* aisha_stt._merge_consecutive_speakers                                   *)
(***************************************************************************)
\* variant: only abutting same-speaker turns are merged
aisha_same_speaker_abutting(segment, current) ==
    segment.speaker = current.speaker /\ segment.start = current.end

\* line 155: segment["speaker"] == current["speaker"]
aisha_same_speaker(segment, current) == segment.speaker = current.speaker

\* variant: a same-speaker segment is absorbed without extending `end`
RECURSIVE aisha_merge_loop_keep_end(_, _, _)
aisha_merge_loop_keep_end(rest, current, acc) ==
    IF rest = <<>> THEN Append(acc, current)
    ELSE LET segment == Head(rest) IN
         IF segment.speaker = current.speaker
         THEN aisha_merge_loop_keep_end(Tail(rest), current, acc)
         ELSE aisha_merge_loop_keep_end(Tail(rest), segment, Append(acc, current))

RECURSIVE aisha_merge_loop(_, _, _)
aisha_merge_loop(rest, current, acc) ==
    IF rest = <<>> THEN Append(acc, current)
    ELSE LET segment == Head(rest) IN
         IF aisha_same_speaker(segment, current)
         THEN aisha_merge_loop(Tail(rest), [current EXCEPT !.end = segment.end], acc)
         ELSE aisha_merge_loop(Tail(rest), segment, Append(acc, current))

\* variant: the scan starts at segments[2:]
aisha_merge_rest_skip(segs) == slice(segs, 2, Len(segs))

\* the scan starts at segments[1:]
aisha_merge_rest(segs) == Tail(segs)

\* variant: the diarization is used as received
aisha_merge_skipped(segs) == segs

\* lines 143-164
aisha_merge_consecutive_speakers(segs) ==
    IF segs = <<>> THEN segs
    ELSE aisha_merge_loop(aisha_merge_rest(segs), Head(segs), <<>>)

(***************************************************************************)
(* audio_utils.split_audio_into_segments, the merge loop (do_merge=True).  *)
(* `merged` holds references to the dicts of diar_data (merged.append(i)), *)
(* so it is kept as a list of indices into the (mutated) data.             *)
(***************************************************************************)
RECURSIVE split_merge_loop(_, _, _, _)
split_merge_loop(data, k, refs, prev_speaker) ==
    IF k > Len(data) THEN [raised |-> FALSE, data |-> data, refs |-> refs]
    ELSE IF prev_speaker = data[k].speaker
         THEN IF refs = <<>>
              THEN [raised |-> TRUE, data |-> data, refs |-> refs]
              ELSE split_merge_loop(
                       [data EXCEPT ![refs[Len(refs)]].end = data[k].end],
                       k + 1, refs, prev_speaker)
         ELSE split_merge_loop(data, k + 1, Append(refs, k), data[k].speaker)

split_audio_merge(data) == split_merge_loop(data, 1, <<>>, "")

\* the values the list `merged` holds when the loop ends
split_merged_list(r) == [j \in 1..Len(r.refs) |-> r.data[r.refs[j]]]

(***************************************************************************)
(* Texts of core.tasks (messages handed to the task runner)                *)
(***************************************************************************)
\* the grave accent character
BACKTICK == "grave"

\* line 158
MsgLoading ==
    <<"l", "o", "a", "d", "i", "n", "g", " ", "a", "u", "d", "i", "o", " ",
      "f", "i", "l", "e">>

\* line 174
MsgSubmitted ==
    <<"a", "u", "d", "i", "o", " ", "s", "u", "b", "m", "i", "t", "t", "e",
      "d", ",", " ", "w", "a", "i", "t", "i", "n", "g", " ", "f", "o", "r",
      " ", "d", "i", "a", "r", "i", "z", "a", "t", "i", "o", "n", ".", ".",
      ".">>

\* line 234
MsgTranscribing ==
    <<"t", "r", "a", "n", "s", "c", "r", "i", "b", "i", "n", "g", " ", "a",
      "u", "d", "i", "o", " ", "w", "i", "t", "h", " ", "A", "I", "S", "H",
      "A", ".", ".", ".">>

\* line 245
MsgGenerating ==
    <<"g", "e", "n", "e", "r", "a", "t", "i", "n", "g", " ", "a", "n", "a",
      "l", "y", "s", "i", "s", ".", ".", ".">>

\* line 249
MsgSaving ==
    <<"s", "a", "v", "i", "n", "g", " ", "a", "n", "a", "l", "y", "s", "i",
      "s", " ", "r", "e", "s", "u", "l", "t", "s", ".", ".", ".">>

\* line 170
DetailSubmitError ==
    <<"p", "y", "a", "n", "n", "o", "t", "e", "a", "i", " ", "s", "u", "b",
      "m", "i", "t", " ", "e", "r", "r", "o", "r">>

\* line 194, the text before the payload
DetailCheckJobError ==
    <<"p", "y", "a", "n", "n", "o", "t", "e", "a", "i", " ", "c", "h", "e",
      "c", "k", "_", "j", "o", "b", " ", "e", "r", "r", "o", "r", ":", " ">>

\* line 209
DetailNoOutput ==
    <<"d", "i", "a", "r", "i", "z", "a", "t", "i", "o", "n", " ", "g", "o",
      "t", " ", "n", "o", " ", BACKTICK, "o", "u", "t", "p", "u", "t", BACKTICK, " ",
      "f", "i", "e", "l", "d">>

\* line 225
DetailNoDiarization ==
    <<"d", "i", "a", "r", "i", "z", "a", "t", "i", "o", "n", " ", "g", "o",
      "t", " ", "n", "o", " ", BACKTICK, "d", "i", "a", "r", "i", "z", "a", "t",
      "i", "o", "n", BACKTICK, " ", "f", "i", "e", "l", "d">>

\* line 269, the text before the exception
DetailException ==
    <<"e", "r", "r", "o", "r", " ", "o", "c", "c", "u", "r", "r", "e", "d",
      " ", "w", "h", "i", "l", "e", " ", "p", "r", "o", "c", "e", "s", "s",
      "i", "n", "g", " ", "t", "h", "e", " ", "a", "u", "d", "i", "o", ":",
      " ">>

LowerLetters ==
    <<"a", "b", "c", "d", "e", "f", "g", "h", "i", "j", "k", "l", "m", "n",
      "o", "p", "q", "r", "s", "t", "u", "v", "w", "x", "y", "z">>

UpperLetters ==
    <<"A", "B", "C", "D", "E", "F", "G", "H", "I", "J", "K", "L", "M", "N",
      "O", "P", "Q", "R", "S", "T", "U", "V", "W", "X", "Y", "Z">>

LetterIndex(alphabet, c) == CHOOSE i \in 1..Len(alphabet) : alphabet[i] = c

\* str.upper / str.lower of one character
to_upper(c) ==
    IF \E i \in 1..Len(LowerLetters) : LowerLetters[i] = c
    THEN UpperLetters[LetterIndex(LowerLetters, c)]
    ELSE c

to_lower(c) ==
    IF \E i \in 1..Len(UpperLetters) : UpperLetters[i] = c
    THEN LowerLetters[LetterIndex(UpperLetters, c)]
    ELSE c

\* str.lower
lower(s) == [i \in 1..Len(s) |-> to_lower(s[i])]

\* variant: the message is reported as written
capitalize_unchanged(s) == s

\* str.capitalize: first character upper case, the rest lower case
capitalize(s) == [i \in 1..Len(s) |-> IF i = 1 THEN to_upper(s[i]) ELSE to_lower(s[i])]

(***************************************************************************)
(* ai.pyannoteai: PyAnnoteAI_Status and the client                         *)
(***************************************************************************)
\* lines 20-31: StrEnum with auto(), the value is the lower-cased name
PENDING == <<"p", "e", "n", "d", "i", "n", "g">>
CREATED == <<"c", "r", "e", "a", "t", "e", "d">>
RUNNING == <<"r", "u", "n", "n", "i", "n", "g">>
SUCCEEDED == <<"s", "u", "c", "c", "e", "e", "d", "e", "d">>
FAILED == <<"f", "a", "i", "l", "e", "d">>
CANCELED == <<"c", "a", "n", "c", "e", "l", "e", "d">>
INVALID_REQUEST ==
    <<"i", "n", "v", "a", "l", "i", "d", "_", "r", "e", "q", "u", "e",
      "s", "t">>
TOO_MANY_REQUESTS ==
    <<"t", "o", "o", "_", "m", "a", "n", "y", "_", "r", "e", "q", "u",
      "e", "s", "t", "s">>
PAYMENT_REQUIRED ==
    <<"p", "a", "y", "m", "e", "n", "t", "_", "r", "e", "q", "u", "i",
      "r", "e", "d">>
UNKNOWN == <<"u", "n", "k", "n", "o", "w", "n">>

StatusValues ==
    {PENDING, CREATED, RUNNING, SUCCEEDED, FAILED, CANCELED, INVALID_REQUEST,
     TOO_MANY_REQUESTS, PAYMENT_REQUIRED, UNKNOWN}

\* PyAnnoteAI_Status(st) returns the member whose value is st and raises
\* ValueError when there is none
is_status_value(st) == st \in StatusValues

\* a provider response: the request raised (kind "error") or an HTTP
\* response with a status code and a body; a JSON body is an object with
\* the keys `keys`
NoOutput == [keys |-> {}, diarization |-> <<>>]

HttpResponse(code, is_json, keys, st, jid, out) ==
    [kind |-> "http", status_code |-> code, json |-> is_json, keys |-> keys,
     status |-> st, jobId |-> jid, output |-> out]

RequestError == [HttpResponse(0, FALSE, {}, <<>>, <<>>, NoOutput) EXCEPT !.kind = "error"]

ErrorCode(code) == HttpResponse(code, FALSE, {}, <<>>, <<>>, NoOutput)

JsonBody(keys, st, jid, out) == HttpResponse(200, TRUE, keys, st, jid, out)

\* None, and the dict resp.json() returns
NoneData ==
    [is_none |-> TRUE, keys |-> {}, status |-> <<>>, jobId |-> <<>>, output |-> NoOutput]

json(resp) ==
    [is_none |-> FALSE, keys |-> resp.keys, status |-> resp.status,
     jobId |-> resp.jobId, output |-> resp.output]

\* data.get("status", "unknown")
get_status(data) == IF "status" \in data.keys THEN data.status ELSE UNKNOWN

\* data.get("jobId", None)
get_job_id(data) == IF "jobId" \in data.keys THEN data.jobId ELSE <<>>

\* outcome of a client call: an exception or the returned pair
Raise(exc) ==
    [raised |-> TRUE, exc |-> exc, status |-> <<>>, job_id |-> <<>>, data |-> NoneData]

Return(st, jid, data) ==
    [raised |-> FALSE, exc |-> "", status |-> st, job_id |-> jid, data |-> data]

\* lines 62-88
submit(resp) ==
    IF resp.kind = "error" THEN Raise("ConnectionError")
    ELSE IF resp.status_code = 400 THEN Return(INVALID_REQUEST, <<>>, NoneData)
    ELSE IF resp.status_code = 402 THEN Return(PAYMENT_REQUIRED, <<>>, NoneData)
    ELSE IF resp.status_code = 429 THEN Return(TOO_MANY_REQUESTS, <<>>, NoneData)
    ELSE IF ~resp.json THEN Raise("JSONDecodeError")
    ELSE LET data == json(resp)
             st == get_status(data)
         IN IF is_status_value(st)
            THEN Return(st, get_job_id(data), NoneData)
            ELSE Raise("ValueError")

\* lines 90-115
check_job(resp) ==
    IF resp.kind = "error" THEN Raise("ConnectionError")
    ELSE IF resp.status_code = 400 THEN Return(INVALID_REQUEST, <<>>, NoneData)
    ELSE IF resp.status_code = 402 THEN Return(PAYMENT_REQUIRED, <<>>, NoneData)
    ELSE IF resp.status_code = 429 THEN Return(TOO_MANY_REQUESTS, <<>>, NoneData)
    ELSE IF ~resp.json THEN Raise("JSONDecodeError")
    ELSE LET data == json(resp)
             st == get_status(data)
         IN IF is_status_value(lower(st))
            THEN Return(lower(st), <<>>, json(resp))
            ELSE Raise("ValueError")

(***************************************************************************)
(* core.tasks.convert_audio_to_text: values before the task has run        *)
(***************************************************************************)
\* no check_job call yet
NoCheck == [polled |-> FALSE, resp |-> RequestError, result |-> Raise("")]

NothingSaved == [done |-> FALSE, raw_diarization |-> <<>>]

PipeLocalsUnset ==
    /\ task_updates = <<>>
    /\ events = <<>>
    /\ job_id = <<>>
    /\ last_check = NoCheck
    /\ task_segments = <<>>
    /\ diarization_with_text = <<>>
    /\ analysis = "none"
    /\ analysis_input = <<>>
    /\ saved = NothingSaved
    /\ task_exc = ""

PipeIdle ==
    /\ ppc = "idle"
    /\ call_status = ""
    /\ row_status = ""
    /\ session_failed = FALSE
    /\ PipeLocalsUnset

CutIdle ==
    /\ cut_windows = <<>>
    /\ aisha_cuts = <<>>
    /\ split_cuts = <<>>
    /\ cdone = {}

BaseIdle ==
    /\ sessions = <<>>
    /\ tpc = <<>>
    /\ opened = <<>>
    /\ popped = <<>>
    /\ close_count = <<>>
    /\ seen = <<>>

(***************************************************************************)
(* Specification SpecMerge: the merge operations applied to every ordered  *)
(* diarization sequence within the bounds, and to the documented example.  *)
(***************************************************************************)
MergeExample == <<Window("A", 0, 2), Window("A", 2, 5), Window("B", 5, 7)>>

MergeInputs ==
    OrderedSeqs(MergeMaxLen, MergeMaxTime, SpeakerLabels) \cup {MergeExample}

AlignIdle ==
    /\ whisper_result = [text |-> <<>>, words |-> <<>>, segments |-> <<>>]
    /\ diarization_data = <<>>
    /\ align_result = <<>>
    /\ aligned = <<>>
    /\ apc = "idle"

FanIdle ==
    /\ diarization_segments = <<>>
    /\ merge_speakers = TRUE
    /\ max_workers = 1
    /\ audio_segments = <<>>
    /\ workq = <<>>
    /\ running = {}
    /\ future = <<>>
    /\ failed = <<>>
    /\ results = <<>>
    /\ yielded = {}
    /\ out_of_order = FALSE
    /\ final_result = <<>>
    /\ fpc = "idle"

MergeInit ==
    /\ FanIdle
    /\ AlignIdle
    /\ PipeIdle
    /\ CutIdle
    /\ BaseIdle
    /\ segments \in MergeInputs
    /\ diar_data = segments
    /\ merged = <<>>
    /\ remerged = <<>>
    /\ split_merged = [raised |-> FALSE, list |-> <<>>]
    /\ mdone = {}

\* segments_to_process = _merge_consecutive_speakers(diarization_segments)
MergeCall ==
    /\ "merge" \notin mdone
    /\ merged' = aisha_merge_consecutive_speakers(segments)
    /\ mdone' = mdone \cup {"merge"}
    /\ UNCHANGED <<segments, remerged, diar_data, split_merged, fanVars, alignVars, pipeVars, cutVars, baseVars>>

\* the merge applied to an already merged list
MergeAgain ==
    /\ "merge" \in mdone
    /\ "remerge" \notin mdone
    /\ remerged' = aisha_merge_consecutive_speakers(merged)
    /\ mdone' = mdone \cup {"remerge"}
    /\ UNCHANGED <<segments, merged, diar_data, split_merged, fanVars, alignVars, pipeVars, cutVars, baseVars>>

\* split_audio_into_segments(audio, ext, diar_data, do_merge=True), merge loop
SplitAudioMerge ==
    /\ "split" \notin mdone
    /\ LET r == split_audio_merge(diar_data) IN
        /\ diar_data' = r.data
        /\ split_merged' = [raised |-> r.raised,
                            list |-> IF r.raised THEN <<>> ELSE split_merged_list(r)]
    /\ mdone' = mdone \cup {"split"}
    /\ UNCHANGED <<segments, merged, remerged, fanVars, alignVars, pipeVars, cutVars, baseVars>>

MergeNext == MergeCall \/ MergeAgain \/ SplitAudioMerge

SpecMerge == MergeInit /\ [][MergeNext]_vars

(***************************************************************************)
(* Properties of merge                                                     *)
(***************************************************************************)
NoAdjacentSameSpeaker(list) ==
    \A i \in 1..(Len(list) - 1) : list[i].speaker # list[i + 1].speaker

HasAdjacentSameSpeaker(list) ==
    \E i \in 1..(Len(list) - 1) : list[i].speaker = list[i + 1].speaker

\* Reference run-collapse, by run boundaries (no scan, no accumulator)
RunStarts(S) == {i \in 1..Len(S) : i = 1 \/ S[i].speaker # S[i - 1].speaker}

RunEnd(S, i) ==
    CHOOSE j \in i..Len(S) :
        /\ \A k \in i..j : S[k].speaker = S[i].speaker
        /\ (j = Len(S) \/ S[j + 1].speaker # S[i].speaker)

NthRunStart(S, n) ==
    CHOOSE i \in RunStarts(S) : Cardinality({j \in RunStarts(S) : j < i}) = n - 1

RunCollapse(S) ==
    [n \in 1..Cardinality(RunStarts(S)) |->
        LET i == NthRunStart(S, n) IN
        [speaker |-> S[i].speaker, start |-> S[i].start, end |-> S[RunEnd(S, i)].end]]

\* C4: merge is idempotent: merging the merged list again gives the merged
\* list, segment for segment (speaker, start, end).
C4_MergeIdempotent == "remerge" \in mdone => remerged = merged

C4_Witness ==
    /\ "remerge" \in mdone
    /\ Len(merged) >= 2
    /\ Len(merged) < Len(segments)

\* C5: the output of merge (aisha_stt._merge_consecutive_speakers and the
\* merge loop of split_audio_into_segments) has no two adjacent segments
\* with the same speaker.
C5_NoAdjacentSameSpeaker ==
    /\ "merge" \in mdone => NoAdjacentSameSpeaker(merged)
    /\ ("split" \in mdone /\ ~split_merged.raised)
           => NoAdjacentSameSpeaker(split_merged.list)

C5_Witness ==
    /\ {"merge", "split"} \subseteq mdone
    /\ ~split_merged.raised
    /\ HasAdjacentSameSpeaker(segments)
    /\ Len(merged) >= 2
    /\ Len(split_merged.list) >= 2

\* C6: merge equals the reference run-collapse: each maximal run of
\* consecutive same-speaker segments becomes one segment (speaker, start of
\* the run's first segment, end of its last), runs in order; empty input
\* gives empty output, a single segment is returned unchanged, and
\* [{A,0,2},{A,2,5},{B,5,7}] gives [{A,0,5},{B,5,7}].
C6_MergeIsRunCollapse ==
    "merge" \in mdone =>
        /\ merged = RunCollapse(segments)
        /\ (segments = <<>> => merged = <<>>)
        /\ (Len(segments) = 1 => merged = segments)
        /\ (segments = MergeExample =>
               merged = <<Window("A", 0, 5), Window("B", 5, 7)>>)

C6_Witness ==
    /\ "merge" \in mdone
    /\ segments = MergeExample
    /\ Len(merged) = 2

(***************************************************************************)
(* aisha_stt.transcribe_segment: one remote transcription call.            *)
(* A response is what the call meets:                                      *)
(*   export_error   audio_segment.export raises (outside the try block)    *)
(*   request_error  requests.post raises (connection error, 30 s timeout)  *)
(*   http           a response with a status code and a JSON body          *)
(***************************************************************************)
Letters == <<"a", "b", "c", "d", "e", "f", "g", "h", "i", "j", "k", "l">>

NoBody == <<>>

Response(kind, status, text, transcript) ==
    [kind |-> kind, status |-> status, text |-> text, transcript |-> transcript]

\* what the remote service may answer to the call for segment idx
Responses(idx) ==
    { Response("export_error", 0, NoBody, NoBody),
      Response("request_error", 0, NoBody, NoBody),
      Response("http", 500, <<"E">>, NoBody),
      Response("http", 200, <<SPACE, Letters[idx]>>, NoBody),
      Response("http", 200, NoBody, <<Letters[idx], SPACE>>),
      Response("http", 200, NoBody, NoBody) }

\* a failed call: an exception in the worker, a network error or timeout, or
\* a response whose status is not 200
is_failure(resp) == resp.kind # "http" \/ resp.status # 200

\* line 47: response.status_code != 200
status_is_error(resp) == resp.status # 200

\* the value the worker's call ends with: it raises, or returns a str
transcribe_segment(resp) ==
    IF resp.kind = "export_error" THEN [raised |-> TRUE, value |-> <<>>]
    ELSE IF resp.kind = "request_error" THEN [raised |-> FALSE, value |-> <<>>]
    ELSE IF status_is_error(resp) THEN [raised |-> FALSE, value |-> <<>>]
    ELSE LET text == IF resp.text # <<>> THEN resp.text
                     ELSE IF resp.transcript # <<>> THEN resp.transcript
                     ELSE <<>>
         IN [raised |-> FALSE, value |-> strip(text)]

(***************************************************************************)
(* aisha_stt.transcribe_with_diarization                                   *)
(***************************************************************************)
\* int(seg["start"] * 1000): window times of this specification are whole seconds
to_ms(t) == t * 1000

extract_audio_segments(segs) ==
    [i \in 1..Len(segs) |->
        [idx |-> i, seg |-> segs[i],
         chunk |-> <<to_ms(segs[i].start), to_ms(segs[i].end)>>]]

\* line 67: max_workers: int = 4
DefaultMaxWorkers == 4

\* variant: one thread per segment
pool_size_per_segment == Len(audio_segments)

\* line 114: ThreadPoolExecutor(max_workers=max_workers)
pool_size == max_workers

\* variant: results are stored in completion order
completion_slot(idx, k) == k

\* lines 121-124: idx = future_to_idx[future]; results[idx] = text
future_to_idx(idx, k) == idx

\* variant: future.result() is not guarded
result_unguarded == FALSE

\* lines 122-127: try: future.result() except Exception: results[idx] = ""
result_guarded == TRUE

PendingFuture(chunk) ==
    [state |-> "pending", chunk |-> chunk, raised |-> FALSE, value |-> <<>>]

\* contiguous windows [i-1, i], any speaker pattern; speaker names are
\* interchangeable, so the first speaker is called "A"
FanInputs ==
    UNION {{l \in [1..n -> Speakers] : n >= 1 => l[1] = "A"} : n \in 0..FanMaxSegs}

FanWindows(labels) == [i \in 1..Len(labels) |-> Window(labels[i], i - 1, i)]

MergeIdle ==
    /\ segments = <<>>
    /\ diar_data = <<>>
    /\ merged = <<>>
    /\ remerged = <<>>
    /\ split_merged = [raised |-> FALSE, list |-> <<>>]
    /\ mdone = {}

FanInit ==
    /\ MergeIdle
    /\ AlignIdle
    /\ PipeIdle
    /\ CutIdle
    /\ BaseIdle
    /\ \E labels \in FanInputs : diarization_segments = FanWindows(labels)
    /\ merge_speakers \in BOOLEAN
    /\ max_workers \in (1..FanMaxWorkers) \cup {DefaultMaxWorkers}
    /\ audio_segments = <<>>
    /\ workq = <<>>
    /\ running = {}
    /\ future = <<>>
    /\ failed = <<>>
    /\ results = <<>>
    /\ yielded = {}
    /\ out_of_order = FALSE
    /\ final_result = <<>>
    /\ fpc = "start"

\* lines 86-88: no diarization segments
ReturnEmpty ==
    /\ fpc = "start"
    /\ diarization_segments = <<>>
    /\ final_result' = <<>>
    /\ fpc' = "done"
    /\ UNCHANGED <<mergeVars, alignVars, pipeVars, cutVars, baseVars, diarization_segments, merge_speakers, max_workers,
                   audio_segments, workq, running, future, failed, results, yielded,
                   out_of_order>>

\* lines 90-112: merge, cut the audio, pre-size the result list
Prepare ==
    /\ fpc = "start"
    /\ diarization_segments # <<>>
    /\ LET segments_to_process ==
               IF merge_speakers
               THEN aisha_merge_consecutive_speakers(diarization_segments)
               ELSE diarization_segments
       IN /\ audio_segments' = extract_audio_segments(segments_to_process)
          /\ results' = [i \in 1..Len(segments_to_process) |->
                            [writes |-> 0, text |-> <<>>]]
    /\ fpc' = "submit"
    /\ UNCHANGED <<mergeVars, alignVars, pipeVars, cutVars, baseVars, diarization_segments, merge_speakers, max_workers,
                   workq, running, future, failed, yielded, out_of_order, final_result>>

\* lines 115-118: executor.submit(transcribe_segment, chunk, idx, language),
\* in list order
Submit ==
    /\ fpc = "submit"
    /\ LET idx == Len(future) + 1 IN
        /\ future' = Append(future, PendingFuture(audio_segments[idx].chunk))
        /\ failed' = Append(failed, FALSE)
        /\ workq' = Append(workq, idx)
        /\ fpc' = IF idx = Len(audio_segments) THEN "collect" ELSE "submit"
    /\ UNCHANGED <<mergeVars, alignVars, pipeVars, cutVars, baseVars, diarization_segments, merge_speakers, max_workers,
                   audio_segments, running, results, yielded, out_of_order, final_result>>

\* a free pool thread takes the oldest queued work item and starts the call
StartCall ==
    /\ workq # <<>>
    /\ Cardinality(running) < pool_size
    /\ LET idx == Head(workq) IN
        /\ running' = running \cup {idx}
        /\ future' = [future EXCEPT ![idx].state = "running"]
    /\ workq' = Tail(workq)
    /\ UNCHANGED <<mergeVars, alignVars, pipeVars, cutVars, baseVars, diarization_segments, merge_speakers, max_workers,
                   audio_segments, failed, results, yielded, out_of_order,
                   final_result, fpc>>

\* lines 23-58 in a pool thread: the call ends and its future is set
FinishCall ==
    \E idx \in running : \E resp \in Responses(idx) :
        LET r == transcribe_segment(resp) IN
        /\ running' = running \ {idx}
        /\ failed' = [failed EXCEPT ![idx] = is_failure(resp)]
        /\ future' = [future EXCEPT ![idx].state = "finished",
                                    ![idx].raised = r.raised,
                                    ![idx].value = r.value]
        /\ UNCHANGED <<mergeVars, alignVars, pipeVars, cutVars, baseVars, diarization_segments, merge_speakers, max_workers,
                       audio_segments, workq, results, yielded, out_of_order,
                       final_result, fpc>>

InSeq(x, xs) == \E j \in 1..Len(xs) : xs[j] = x

\* variant: the loop ends with the first future handed out
as_completed_first == yielded # {}

\* line 120: the as_completed loop ends when every future has been handed out
as_completed_exhausted == yielded = 1..Len(audio_segments)

\* lines 120-127: as_completed hands out a finished future; the caller stores
\* its outcome
Collect ==
    /\ fpc = "collect"
    /\ \E idx \in 1..Len(future) :
        /\ future[idx].state = "finished"
        /\ idx \notin yielded
        /\ yielded' = yielded \cup {idx}
        /\ out_of_order' = (out_of_order \/ \E j \in 1..(idx - 1) : j \notin yielded)
        /\ IF future[idx].raised /\ ~result_guarded
           THEN /\ fpc' = "raised"      \* the exception leaves the function
                /\ UNCHANGED results
           ELSE LET slot == future_to_idx(idx, Cardinality(yielded) + 1)
                    text == IF future[idx].raised THEN <<>> ELSE future[idx].value
                IN /\ results' = [results EXCEPT ![slot] =
                                     [writes |-> @.writes + 1, text |-> text]]
                   /\ UNCHANGED fpc
    /\ UNCHANGED <<mergeVars, alignVars, pipeVars, cutVars, baseVars, diarization_segments, merge_speakers, max_workers,
                   audio_segments, workq, running, future, failed, final_result>>

\* lines 114, 129-140: the with block ends (shutdown waits for the pool
\* threads) and the final list is built
BuildResult ==
    /\ fpc = "collect"
    /\ as_completed_exhausted
    /\ running = {}
    /\ workq = <<>>
    /\ final_result' =
           [i \in 1..Len(audio_segments) |->
               [speaker |-> audio_segments[i].seg.speaker,
                start |-> audio_segments[i].seg.start,
                end |-> audio_segments[i].seg.end,
                text |-> results[i].text]]
    /\ fpc' = "done"
    /\ UNCHANGED <<mergeVars, alignVars, pipeVars, cutVars, baseVars, diarization_segments, merge_speakers, max_workers,
                   audio_segments, workq, running, future, failed, results, yielded,
                   out_of_order>>

FanNext ==
    \/ ReturnEmpty
    \/ Prepare
    \/ Submit
    \/ StartCall
    \/ FinishCall
    \/ Collect
    \/ BuildResult

SpecFan == FanInit /\ [][FanNext]_vars

\* pool threads run: a queued call is taken when a thread is free, and a call
\* returns (the request carries timeout=30)
SpecFanFair == SpecFan /\ WF_vars(StartCall) /\ WF_vars(FinishCall)

(***************************************************************************)
(* Properties of the transcription fan-out                                 *)
(***************************************************************************)
NumSegments == Len(audio_segments)

\* the text a successful call for segment i can produce
TextOfSegment(i) == {<<Letters[i]>>, <<>>}

\* C1: for N >= 1 segments and any completion order, the returned list has N
\* entries and entry i carries the text returned by the call made for
\* segment i (the call whose audio chunk is segment i's), never another's.
C1_OrderPreserved ==
    (fpc = "done" /\ NumSegments >= 1) =>
        /\ Len(final_result) = NumSegments
        /\ \A i \in 1..NumSegments :
              /\ future[i].chunk = audio_segments[i].chunk
              /\ ~future[i].raised => final_result[i].text = future[i].value
              /\ final_result[i].text \in TextOfSegment(i)

\* the calls completed in an order different from the input order, each
\* with its own non-empty text
C1_Witness ==
    /\ fpc = "done"
    /\ NumSegments >= 3
    /\ out_of_order
    /\ \A i \in 1..NumSegments : final_result[i].text = <<Letters[i]>>

\* C2: failed calls (network error, timeout, non-200 response, exception in
\* the worker) do not abort the batch: one entry per segment is returned,
\* "" for each failed segment and its own call's text for every other one.
C2_FailureIsolated ==
    /\ fpc # "raised"
    /\ fpc = "done" =>
        /\ Len(final_result) = NumSegments
        /\ \A i \in 1..NumSegments :
              IF failed[i]
              THEN final_result[i].text = <<>>
              ELSE /\ ~future[i].raised
                   /\ final_result[i].text = future[i].value

\* a worker raised, another call failed inside transcribe_segment, and a
\* third call of the same batch returned its text
C2_Witness ==
    /\ fpc = "done"
    /\ NumSegments >= 3
    /\ \E i, j, k \in 1..NumSegments :
          /\ future[i].raised
          /\ failed[j] /\ ~future[j].raised
          /\ ~failed[k] /\ final_result[k].text = <<Letters[k]>>

\* C3: at most max_workers calls are in flight at any moment, a call starts
\* only when fewer than max_workers are in flight (so one beyond the bound
\* waits for an earlier call to finish), and every queued call is started.
C3_BoundedConcurrency ==
    /\ [](Cardinality(running) <= max_workers)
    /\ [][\A i \in running' \ running : Cardinality(running) < max_workers]_vars
    /\ \A i \in 1..FanMaxSegs :
          (InSeq(i, workq)) ~> (i \in running)

\* the pool is full while a submitted call waits in the queue
C3_Witness ==
    /\ Cardinality(running) = max_workers
    /\ workq # <<>>
    /\ \E i \in 1..Len(future) : future[i].state = "finished"

(***************************************************************************)
(* whisper_api._merge_consecutive_speakers (segments carry text)           *)
(***************************************************************************)
\* variant: the texts are joined but `end` is not extended
RECURSIVE whisper_merge_loop_keep_end(_, _, _)
whisper_merge_loop_keep_end(rest, current, acc) ==
    IF rest = <<>> THEN Append(acc, current)
    ELSE LET segment == Head(rest) IN
         IF segment.speaker = current.speaker
         THEN whisper_merge_loop_keep_end(
                  Tail(rest),
                  [current EXCEPT
                      !.text = IF segment.text # <<>>
                               THEN strip(current.text \o <<SPACE>> \o segment.text)
                               ELSE current.text],
                  acc)
         ELSE whisper_merge_loop_keep_end(Tail(rest), segment, Append(acc, current))

\* lines 297-307
RECURSIVE whisper_merge_loop(_, _, _)
whisper_merge_loop(rest, current, acc) ==
    IF rest = <<>> THEN Append(acc, current)
    ELSE LET segment == Head(rest) IN
         IF segment.speaker = current.speaker
         THEN whisper_merge_loop(
                  Tail(rest),
                  [current EXCEPT
                      !.end = segment.end,
                      !.text = IF segment.text # <<>>
                               THEN strip(current.text \o <<SPACE>> \o segment.text)
                               ELSE current.text],
                  acc)
         ELSE whisper_merge_loop(Tail(rest), segment, Append(acc, current))

whisper_merge_consecutive_speakers(segs) ==
    IF segs = <<>> THEN segs
    ELSE whisper_merge_loop(Tail(segs), Head(segs), <<>>)

(***************************************************************************)
(* whisper_api.map_transcript_to_diarization, token path                   *)
(***************************************************************************)
Token(s, e, word, text) == [start |-> s, end |-> e, word |-> word, text |-> text]

\* lines 216/220: ws.get("word") or ws.get("text", "")
token_text(ws) == IF ws.word # <<>> THEN ws.word ELSE ws.text

\* variant: the token overlaps the window
midpoint_in_window_overlap(ws, diar_segment) ==
    /\ diar_segment.start <= ws.end
    /\ ws.start <= diar_segment.end

\* lines 224-226: ws_mid = (ws_start + ws_end) / 2;
\* diar_start <= ws_mid <= diar_end (both sides doubled, exact)
midpoint_in_window(ws, diar_segment) ==
    /\ 2 * diar_segment.start <= ws.start + ws.end
    /\ ws.start + ws.end <= 2 * diar_segment.end

\* lines 209-228: the stripped texts of the tokens collected for one window
RECURSIVE segment_text_parts(_, _)
segment_text_parts(tokens, diar_segment) ==
    IF tokens = <<>> THEN <<>>
    ELSE LET ws == Head(tokens)
             tail == segment_text_parts(Tail(tokens), diar_segment)
         IN IF midpoint_in_window(ws, diar_segment) /\ token_text(ws) # <<>>
            THEN <<strip(token_text(ws))>> \o tail
            ELSE tail

\* lines 201-238: one entry per diarization window
token_alignment(tokens, data) ==
    [k \in 1..Len(data) |->
        [speaker |-> data[k].speaker, start |-> data[k].start, end |-> data[k].end,
         text |-> join(segment_text_parts(tokens, data[k]))]]

(***************************************************************************)
(* whisper_api._fallback_distribution                                      *)
(***************************************************************************)
RECURSIVE total_duration(_)
total_duration(data) ==
    IF data = <<>> THEN 0
    ELSE (Head(data).end - Head(data).start) + total_duration(Tail(data))

\* int(x) of the exact quotient n / d (d # 0): truncation toward zero
int_quotient(n, d) ==
    LET an == IF n < 0 THEN -n ELSE n
        ad == IF d < 0 THEN -d ELSE d
        q == an \div ad
    IN IF (n < 0) = (d < 0) THEN q ELSE -q

max(a, b) == IF a >= b THEN a ELSE b

\* variant: every window takes exactly its proportional share
words_for_segment_no_min(total_words, segment_duration, total) ==
    int_quotient(total_words * segment_duration, total)

\* line 268: max(1, int(total_words * segment_proportion))
words_for_segment(total_words, segment_duration, total) ==
    max(1, int_quotient(total_words * segment_duration, total))

\* variant: the slice of the next window starts one word early
next_word_index_overlap(word_index, n) == word_index + n - 1

\* line 271: word_index += words_for_segment
next_word_index(word_index, n) == word_index + n

\* lines 265-278: [result, word_index] after the loop over the windows
RECURSIVE fallback_loop(_, _, _, _, _)
fallback_loop(data, words, total, word_index, result) ==
    IF data = <<>> THEN [result |-> result, word_index |-> word_index]
    ELSE LET diar == Head(data)
             n == words_for_segment(Len(words), diar.end - diar.start, total)
             segment_words == slice(words, word_index, word_index + n)
         IN fallback_loop(
                Tail(data), words, total, next_word_index(word_index, n),
                Append(result,
                       [speaker |-> diar.speaker, start |-> diar.start,
                        end |-> diar.end, text |-> join(segment_words)]))

\* lines 246-284
fallback_distribution(full_text, data) ==
    IF full_text = <<>> \/ data = <<>> THEN data
    ELSE IF total_duration(data) = 0 THEN data
    ELSE LET words == split(full_text)
             r == fallback_loop(data, words, total_duration(data), 0, <<>>)
             last == Len(r.result)
         IN IF r.word_index < Len(words) /\ r.result # <<>>
            THEN [r.result EXCEPT
                     ![last].text = @ \o <<SPACE>>
                                      \o join(slice(words, r.word_index, Len(words)))]
            ELSE r.result

(***************************************************************************)
(* whisper_api.map_transcript_to_diarization                               *)
(***************************************************************************)
\* line 193: whisper_result.get("words") or whisper_result.get("segments") or []
whisper_segments(wr) ==
    IF wr.words # <<>> THEN wr.words
    ELSE IF wr.segments # <<>> THEN wr.segments
    ELSE <<>>

\* which return statement the call takes
alignment_path(wr, data) ==
    IF data = <<>> THEN "no_diarization"
    ELSE IF whisper_segments(wr) = <<>> THEN "fallback"
    ELSE "tokens"

map_transcript_to_diarization(wr, data) ==
    IF data = <<>>
    THEN <<[speaker |-> "SPEAKER_00", start |-> 0, end |-> 0, text |-> wr.text]>>
    ELSE IF whisper_segments(wr) = <<>>
    THEN fallback_distribution(wr.text, data)
    ELSE whisper_merge_consecutive_speakers(token_alignment(whisper_segments(wr), data))

(***************************************************************************)
(* Specification SpecAlign: map_transcript_to_diarization applied to every *)
(* transcript and diarization within the bounds and to the documented      *)
(* examples.                                                               *)
(***************************************************************************)
\* token i carries the one-letter word Letters[i]; word-level entries come
\* as {"word": "a"}, segment-level entries as {"text": " a"}
WordToken(i, s, e) == Token(s, e, <<Letters[i]>>, <<>>)
SegmentToken(i, s, e) == Token(s, e, <<>>, <<SPACE, Letters[i]>>)

\* token times: ordered, not overlapping
TokenTimes ==
    UNION {
        {T \in [1..n -> {iv \in (0..AlignMaxTime) \X (0..AlignMaxTime) : iv[1] <= iv[2]}] :
            \A i \in 1..(n - 1) : T[i][2] <= T[i + 1][1]}
        : n \in 1..AlignMaxTokens}

LetterText(n) == join([i \in 1..n |-> <<Letters[i]>>])

TimestampedTranscripts ==
    {[text |-> LetterText(Len(T)),
      words |-> [i \in 1..Len(T) |-> WordToken(i, T[i][1], T[i][2])],
      segments |-> <<>>] : T \in TokenTimes}
    \cup
    {[text |-> LetterText(Len(T)),
      words |-> <<>>,
      segments |-> [i \in 1..Len(T) |-> SegmentToken(i, T[i][1], T[i][2])]] : T \in TokenTimes}

PlainTranscripts ==
    {[text |-> LetterText(n), words |-> <<>>, segments |-> <<>>] : n \in 0..AlignMaxWords}

\* ordered diarization; speaker names are interchangeable, the first is "A"
AlignDiarizations ==
    {S \in OrderedSeqs(AlignMaxWindows, AlignMaxTime, Speakers) :
        S # <<>> => S[1].speaker = "A"}

\* token {start 1.4, end 1.6, "hi"} with windows S1 [0, 1.5], S2 [1.5, 3]
\* (ticks of 0.1 s)
BoundaryExample ==
    <<[text |-> <<"h", "i">>,
       words |-> <<Token(14, 16, <<"h", "i">>, <<>>)>>,
       segments |-> <<>>],
      <<Window("S1", 0, 15), Window("S2", 15, 30)>>>>

\* ten words, two windows of equal duration, no timestamps
TenWordExample ==
    <<[text |-> LetterText(10), words |-> <<>>, segments |-> <<>>],
      <<Window("A", 0, 1), Window("B", 1, 2)>>>>

\* irregular whitespace in the full text
WhitespaceExample ==
    <<[text |-> <<SPACE, "a", SPACE, SPACE, "b", SPACE>>,
       words |-> <<>>, segments |-> <<>>],
      <<Window("A", 0, 1), Window("B", 1, 2)>>>>

\* a token whose text is empty is skipped
EmptyTokenExample ==
    <<[text |-> <<"b">>,
       words |-> <<Token(0, 1, <<>>, <<>>), Token(1, 2, <<"b">>, <<>>)>>,
       segments |-> <<>>],
      <<Window("A", 0, 1), Window("A", 1, 2)>>>>

\* windows A [0,3], A [3,6], B [6,9] with nine one-second word tokens
\* covering 0 to 9 s evenly
EndToEndExample ==
    <<[text |-> LetterText(9),
       words |-> [i \in 1..9 |-> WordToken(i, i - 1, i)],
       segments |-> <<>>],
      <<Window("A", 0, 3), Window("A", 3, 6), Window("B", 6, 9)>>>>

\* two padded segment tokens in window A [0, 2] and one whose midpoint 5
\* lies between the windows A [0, 2] and B [6, 8]
GapExample ==
    <<[text |-> LetterText(3),
       words |-> <<>>,
       segments |-> <<SegmentToken(1, 0, 1), SegmentToken(2, 1, 2), SegmentToken(3, 4, 6)>>],
      <<Window("A", 0, 2), Window("B", 6, 8)>>>>

\* a token whose text is one space, followed by a word
BlankTokenExample ==
    <<[text |-> <<"a">>,
       words |-> <<Token(0, 1, <<SPACE>>, <<>>), Token(1, 2, <<"a">>, <<>>)>>,
       segments |-> <<>>],
      <<Window("A", 0, 2)>>>>

AlignExamples ==
    {BoundaryExample, TenWordExample, WhitespaceExample, EmptyTokenExample,
     EndToEndExample, GapExample, BlankTokenExample}

AlignInit ==
    /\ MergeIdle
    /\ FanIdle
    /\ PipeIdle
    /\ CutIdle
    /\ BaseIdle
    /\ \E in \in ((TimestampedTranscripts \cup PlainTranscripts) \X AlignDiarizations)
                    \cup AlignExamples :
          /\ whisper_result = in[1]
          /\ diarization_data = in[2]
    /\ align_result = <<>>
    /\ aligned = <<>>
    /\ apc = "start"

\* lines 166-243: the call
MapTranscript ==
    /\ apc = "start"
    /\ apc' = alignment_path(whisper_result, diarization_data)
    /\ align_result' =
           IF alignment_path(whisper_result, diarization_data) = "tokens"
           THEN token_alignment(whisper_segments(whisper_result), diarization_data)
           ELSE <<>>
    /\ aligned' = map_transcript_to_diarization(whisper_result, diarization_data)
    /\ UNCHANGED <<mergeVars, fanVars, pipeVars, cutVars, baseVars, whisper_result, diarization_data>>

AlignNext == MapTranscript

SpecAlign == AlignInit /\ [][AlignNext]_vars

(***************************************************************************)
(* core.tasks.convert_audio_to_text                                        *)
(***************************************************************************)
\* meta["status"] of the failure updates written with the literal "FAIL"
StatusFAIL == <<"F", "A", "I", "L">>

\* the value interpolated into a detail text by an f-string, if any
NoPayload == [present |-> FALSE, data |-> NoneData]

Interpolated(data) == [present |-> TRUE, data |-> data]

\* one update_state call: state, meta["status"] (<<>> when absent), the
\* literal part of meta["detail"] and the interpolated provider payload
Update(state, status, text, payload) ==
    [state |-> state, status |-> status, text |-> text, payload |-> payload]

\* lines 32-35
set_state(ups, msg) == Append(ups, Update("RUNNING", <<>>, capitalize(msg), NoPayload))

\* str(e): Ignore() carries no message; the message of any other
\* exception is one opaque piece of text
exception_text(exc) == IF exc = "Ignore" THEN <<>> ELSE <<exc>>

\* variant: the handler reports FAIL without a detail text
except_update_no_detail(exc) == Update("FAIL", StatusFAIL, <<>>, NoPayload)

\* lines 265-271
except_update(exc) ==
    Update("FAIL", StatusFAIL, DetailException \o exception_text(exc), NoPayload)

\* lines 263-274: `except Exception as e`; celery.exceptions.Ignore is a
\* subclass of Exception, so the handler also runs for `raise Ignore()`.
\* session.commit() raises when an earlier flush of the session failed
\* and no rollback was issued; that error then leaves the task.
except_handler(ups, exc, flush_failed) ==
    /\ task_updates' = Append(ups, except_update(exc))
    /\ call_status' = "FAIL"
    /\ session_failed' = flush_failed
    /\ row_status' = IF flush_failed THEN row_status ELSE "FAIL"
    /\ task_exc' = IF flush_failed THEN "PendingRollbackError" ELSE exc
    /\ ppc' = "raised"

\* lines 166-172, 188-197, 205-211, 219-228: call.status = "FAIL", commit,
\* update_state(state="FAIL", ...), raise Ignore()
fail_and_ignore(update) ==
    except_handler(Append(task_updates, update), "Ignore", FALSE)

\* variant: the submit result is not examined
job_missing_never(jid) == FALSE

\* line 164: not job_id
job_missing(jid) == jid = <<>>

\* variant: a failed job is polled again
in_progress_or_failed(st) == st \in {CREATED, PENDING, RUNNING, FAILED}

\* variant: only created and pending keep the loop going
in_progress_not_running(st) == st \in {CREATED, PENDING}

\* lines 178-182
in_progress(st) == st \in {CREATED, PENDING, RUNNING}

\* line 186
poll_failed(st) == st # SUCCEEDED

\* line 199: not diarization_data.get("output")
output_missing(data) == "output" \notin data.keys \/ data.output.keys = {}

\* line 213: "diarization" not in diarization_data["output"]
diarization_key_missing(data) == "diarization" \notin data.output.keys

\* lines 236-241: what transcribe_with_diarization returns for the windows
\* (SpecFan): one entry per merged window, the text of call i or ""
transcription(segs, ok) ==
    LET m == aisha_merge_consecutive_speakers(segs) IN
    [i \in 1..Len(m) |->
        [speaker |-> m[i].speaker, start |-> m[i].start, end |-> m[i].end,
         text |-> IF ok[i] THEN <<Letters[i]>> ELSE <<>>]]

\* variant: the analysis receives the windows without their texts
analysis_argument_untranscribed(dwt) ==
    [k \in 1..Len(dwt) |-> [dwt[k] EXCEPT !.text = <<>>]]

\* line 246: analyze_conversation(diarization_with_text)
analysis_argument(dwt) == dwt

(***************************************************************************)
(* Specification SpecPipe: one run of convert_audio_to_text for an         *)
(* existing call (line 155 has loaded it; the endpoint committed it with   *)
(* status RUNNING, api/endpoints/stt.py lines 113-121) against every       *)
(* behaviour of the provider, the transcription, the analysis and the      *)
(* database within the bounds.                                             *)
(***************************************************************************)
JOB == <<"J", "1">>

\* a status value the enum does not have, and statuses in another case
Paused == <<"p", "a", "u", "s", "e", "d">>
CreatedCapital == <<"C", "r", "e", "a", "t", "e", "d">>
RunningUpper == <<"R", "U", "N", "N", "I", "N", "G">>

SubmitResponses ==
    {RequestError, ErrorCode(400), ErrorCode(402), ErrorCode(429), ErrorCode(502),
     JsonBody({"status", "jobId"}, CREATED, JOB, NoOutput),
     JsonBody({"status", "jobId"}, PENDING, JOB, NoOutput),
     JsonBody({"jobId"}, <<>>, JOB, NoOutput),
     JsonBody({"status"}, CREATED, <<>>, NoOutput),
     JsonBody({"status", "jobId"}, CREATED, <<>>, NoOutput),
     JsonBody({"status", "jobId"}, CreatedCapital, JOB, NoOutput)}

PipeDiarizations ==
    {FanWindows(l) :
        l \in UNION {{x \in [1..n -> Speakers] : n >= 1 => x[1] = "A"} :
                        n \in 0..PipeMaxSegs}}

Output(keys, diarization) == [keys |-> keys, diarization |-> diarization]

\* responses that end the polling
TerminalPollResponses ==
    {RequestError, ErrorCode(400), ErrorCode(402), ErrorCode(429), ErrorCode(502),
     JsonBody({}, <<>>, <<>>, NoOutput),
     JsonBody({"status"}, FAILED, <<>>, NoOutput),
     JsonBody({"status"}, CANCELED, <<>>, NoOutput),
     JsonBody({"status"}, Paused, <<>>, NoOutput),
     JsonBody({"status"}, SUCCEEDED, <<>>, NoOutput),
     JsonBody({"status", "output"}, SUCCEEDED, <<>>, NoOutput),
     JsonBody({"status", "output"}, SUCCEEDED, <<>>, Output({"error"}, <<>>))}
    \cup {JsonBody({"status", "output"}, SUCCEEDED, <<>>, Output({"diarization"}, d)) :
             d \in PipeDiarizations}

\* responses of a job that is not finished
WaitingPollResponses ==
    {JsonBody({"status"}, st, <<>>, NoOutput) :
        st \in {CREATED, PENDING, RUNNING, RunningUpper}}

PipeInit ==
    /\ MergeIdle
    /\ FanIdle
    /\ AlignIdle
    /\ CutIdle
    /\ BaseIdle
    /\ ppc = "start"
    /\ call_status = "RUNNING"
    /\ row_status = "RUNNING"
    /\ session_failed = FALSE
    /\ PipeLocalsUnset

\* the number of check_job calls recorded so far
Polls == Cardinality({i \in 1..Len(events) : events[i] = "check_job"})

\* lines 156-158
LoadAudio ==
    /\ ppc = "start"
    /\ task_updates' = set_state(task_updates, MsgLoading)
    /\ ppc' = "submit"
    /\ UNCHANGED <<mergeVars, fanVars, alignVars, cutVars, baseVars, call_status, row_status,
                   session_failed, events, job_id, last_check, task_segments,
                   diarization_with_text, analysis, analysis_input, saved, task_exc>>

\* lines 160-174: submit, the check of the job id, the progress update
SubmitAudio ==
    /\ ppc = "submit"
    /\ events' = Append(events, "submit")
    /\ \E resp \in SubmitResponses :
        LET r == submit(resp) IN
        IF r.raised
        THEN /\ except_handler(task_updates, r.exc, FALSE)
             /\ UNCHANGED job_id
        ELSE /\ job_id' = r.job_id
             /\ IF job_missing(r.job_id)
                THEN fail_and_ignore(
                         Update("FAIL", r.status, DetailSubmitError, NoPayload))
                ELSE /\ task_updates' = set_state(task_updates, MsgSubmitted)
                     /\ ppc' = "poll"
                     /\ UNCHANGED <<call_status, row_status, session_failed, task_exc>>
    /\ UNCHANGED <<mergeVars, fanVars, alignVars, cutVars, baseVars, last_check, task_segments,
                   diarization_with_text, analysis, analysis_input, saved>>

\* lines 177-234: one check_job call (the first, or the next after
\* sleep(1)) and, when the loop ends with it, the checks of the payload.
\* The loop has no bound on the number of calls; the history `events`
\* records the first PipeMaxPolls of them.
CheckJob ==
    /\ ppc = "poll"
    /\ events' = IF Polls < PipeMaxPolls THEN Append(events, "check_job") ELSE events
    /\ \E resp \in TerminalPollResponses \cup WaitingPollResponses :
        LET r == check_job(resp)
            diarization_payload == r.data
        IN
        /\ last_check' = [polled |-> TRUE, resp |-> resp, result |-> r]
        /\ IF r.raised
           THEN /\ except_handler(task_updates, r.exc, FALSE)
                /\ UNCHANGED task_segments
           ELSE IF in_progress(r.status)
           THEN UNCHANGED <<ppc, task_updates, call_status, row_status,
                            session_failed, task_exc, task_segments>>
           ELSE IF poll_failed(r.status)
           THEN /\ fail_and_ignore(
                       Update("FAIL", r.status, DetailCheckJobError,
                              Interpolated(diarization_payload)))
                /\ UNCHANGED task_segments
           ELSE IF output_missing(diarization_payload)
           THEN /\ fail_and_ignore(
                       Update("FAIL", StatusFAIL, DetailNoOutput, NoPayload))
                /\ UNCHANGED task_segments
           ELSE IF diarization_key_missing(diarization_payload)
           THEN /\ fail_and_ignore(
                       Update("FAIL", StatusFAIL, DetailNoDiarization, NoPayload))
                /\ UNCHANGED task_segments
           ELSE /\ task_segments' = diarization_payload.output.diarization
                /\ task_updates' = set_state(task_updates, MsgTranscribing)
                /\ ppc' = "transcribe"
                /\ UNCHANGED <<call_status, row_status, session_failed, task_exc>>
    /\ UNCHANGED <<mergeVars, fanVars, alignVars, cutVars, baseVars, job_id, diarization_with_text,
                   analysis, analysis_input, saved>>

\* lines 235-245: transcribe_with_diarization returns its list, or raises
\* (the audio cannot be decoded)
Transcribe ==
    /\ ppc = "transcribe"
    /\ events' = Append(events, "transcribe")
    /\ \/ /\ except_handler(task_updates, "CouldntDecodeError", FALSE)
          /\ UNCHANGED diarization_with_text
       \/ \E ok \in [1..Len(aisha_merge_consecutive_speakers(task_segments))
                        -> BOOLEAN] :
             /\ diarization_with_text' = transcription(task_segments, ok)
             /\ task_updates' = set_state(task_updates, MsgGenerating)
             /\ ppc' = "analyze"
             /\ UNCHANGED <<call_status, row_status, session_failed, task_exc>>
    /\ UNCHANGED <<mergeVars, fanVars, alignVars, cutVars, baseVars, job_id, last_check, task_segments,
                   analysis, analysis_input, saved>>

\* lines 246-249: analyze_conversation returns a dict, returns the raw
\* model output as a str (ai/openai.py line 267), or raises
Analyze ==
    /\ ppc = "analyze"
    /\ events' = Append(events, "analyze")
    /\ analysis_input' = analysis_argument(diarization_with_text)
    /\ \/ /\ except_handler(task_updates, "APIError", FALSE)
          /\ UNCHANGED analysis
       \/ \E returned \in {"dict", "str"} :
             /\ analysis' = returned
             /\ task_updates' = set_state(task_updates, MsgSaving)
             /\ ppc' = "persist"
             /\ UNCHANGED <<call_status, row_status, session_failed, task_exc>>
    /\ UNCHANGED <<mergeVars, fanVars, alignVars, cutVars, baseVars, job_id, last_check, task_segments,
                   diarization_with_text, saved>>

\* lines 250-261: save_analysis_to_db (analysis.get raises on a str, line
\* 60; session.flush() may raise, line 80), call.status = "SUCCESS", commit
Persist ==
    /\ ppc = "persist"
    /\ events' = Append(events, "save")
    /\ IF analysis = "str"
       THEN /\ except_handler(task_updates, "AttributeError", FALSE)
            /\ UNCHANGED saved
       ELSE \/ /\ except_handler(task_updates, "IntegrityError", TRUE)
               /\ UNCHANGED saved
            \/ /\ saved' = [done |-> TRUE, raw_diarization |-> diarization_with_text]
               /\ call_status' = "SUCCESS"
               /\ row_status' = "SUCCESS"
               /\ ppc' = "done"
               /\ UNCHANGED <<task_updates, session_failed, task_exc>>
    /\ UNCHANGED <<mergeVars, fanVars, alignVars, cutVars, baseVars, job_id, last_check, task_segments,
                   diarization_with_text, analysis, analysis_input>>

PipeNext ==
    \/ LoadAudio
    \/ SubmitAudio
    \/ CheckJob
    \/ Transcribe
    \/ Analyze
    \/ Persist

SpecPipe == PipeInit /\ [][PipeNext]_vars

\* the task keeps executing: every collaborator call returns or raises and
\* time.sleep(1) returns
SpecPipeFair == SpecPipe /\ WF_vars(PipeNext)

(***************************************************************************)
(* Properties of alignment                                                 *)
(***************************************************************************)
RECURSIVE Flatten(_)
Flatten(seqs) == IF seqs = <<>> THEN <<>> ELSE Head(seqs) \o Flatten(Tail(seqs))

WordsOf(text) == split(text)

NonEmptyText(t) == t # <<>>

\* the windows whose inclusive range [start, end] contains the token midpoint
ContainingWindows(ws, data) ==
    {k \in 1..Len(data) :
        /\ 2 * data[k].start <= ws.start + ws.end
        /\ ws.start + ws.end <= 2 * data[k].end}

TokenPlacedIn(ws, k) ==
    \E j \in 1..Len(WordsOf(align_result[k].text)) :
        WordsOf(align_result[k].text)[j] = strip(token_text(ws))

\* C7: in token-based alignment each token's text is placed in at most one
\* window, the first window in diarization order whose inclusive range
\* contains the token midpoint; a token with midpoint 1.5 and windows
\* S1 = [0, 1.5], S2 = [1.5, 3] goes to S1 only.
C7_TokenInFirstWindowOnly ==
    apc = "tokens" =>
        /\ \A t \in 1..Len(whisper_segments(whisper_result)) :
             LET ws == whisper_segments(whisper_result)[t]
                 cw == ContainingWindows(ws, diarization_data)
             IN token_text(ws) # <<>> =>
                   \A k \in 1..Len(diarization_data) :
                       TokenPlacedIn(ws, k) <=> (k \in cw /\ \A j \in cw : k <= j)
        /\ (<<whisper_result, diarization_data>> = BoundaryExample =>
               /\ align_result[1].text = <<"h", "i">>
               /\ align_result[2].text = <<>>)

\* the texts of the windows of run n of the per-window result, empty ones
\* left out
RunTexts(S, n) ==
    LET i == NthRunStart(S, n) IN
    SelectSeq([k \in 1..(RunEnd(S, i) - i + 1) |-> S[i + k - 1].text], NonEmptyText)

\* on the token path the merged text is the run's texts joined by one space
TokenPathTextsJoined ==
    apc = "tokens" =>
        /\ Len(aligned) = Cardinality(RunStarts(align_result))
        /\ \A n \in 1..Len(aligned) :
              aligned[n].text = join(RunTexts(align_result, n))

\* C10: on the token path and on the no-timestamp fallback path the output
\* of map_transcript_to_diarization has no two adjacent segments with the
\* same speaker, merged neighbours' texts being joined in order by a single
\* space.
C10_NoFragmentation ==
    /\ apc \in {"tokens", "fallback"} => NoAdjacentSameSpeaker(aligned)
    /\ TokenPathTextsJoined

\* sanity of the token path alone
TokenPathNoFragmentation ==
    /\ apc = "tokens" => NoAdjacentSameSpeaker(aligned)
    /\ TokenPathTextsJoined

FallbackApplies ==
    /\ apc = "fallback"
    /\ whisper_result.text # <<>>
    /\ total_duration(diarization_data) > 0

\* C8: for a non-empty full text and a diarization of positive total
\* duration, the texts assigned by the fallback, concatenated in window
\* order, are exactly the original word sequence; ten words over two
\* equal windows give five words each.
C8_WordsConserved ==
    FallbackApplies =>
        /\ Len(aligned) = Len(diarization_data)
        /\ Flatten([k \in 1..Len(aligned) |-> WordsOf(aligned[k].text)])
              = WordsOf(whisper_result.text)
        /\ (<<whisper_result, diarization_data>> = TenWordExample =>
               /\ Len(WordsOf(aligned[1].text)) = 5
               /\ Len(WordsOf(aligned[2].text)) = 5)

C8_Witness ==
    /\ <<whisper_result, diarization_data>> = TenWordExample
    /\ apc = "fallback"
    /\ Len(WordsOf(aligned[1].text)) = 5

\* round(n / d) to the nearest integer, ties to even (n >= 0, d > 0)
RoundQuotient(n, d) ==
    LET q == n \div d
        r == n % d
    IN IF 2 * r < d THEN q
       ELSE IF 2 * r > d THEN q + 1
       ELSE IF q % 2 = 0 THEN q ELSE q + 1

RoundedShare(tw, dur, total) == max(1, RoundQuotient(tw * dur, total))

FlooredShare(tw, dur, total) == max(1, (tw * dur) \div total)

\* the number of words allotted to the windows before window k
RECURSIVE AllottedBefore(_, _, _, _)
AllottedBefore(Share(_, _, _), data, tw, k) ==
    IF k = 1 THEN 0
    ELSE AllottedBefore(Share, data, tw, k - 1)
         + Share(tw, data[k - 1].end - data[k - 1].start, total_duration(data))

\* every window holds its allotment of the words not yet assigned (fewer
\* when the words run out), the last window also what remains
DistributionFollows(Share(_, _, _)) ==
    LET words == WordsOf(whisper_result.text)
        data == diarization_data
        tw == Len(words)
        last == Len(data)
    IN /\ Len(aligned) = last
       /\ \A k \in 1..last :
             LET from == AllottedBefore(Share, data, tw, k)
                 n == Share(tw, data[k].end - data[k].start, total_duration(data))
             IN WordsOf(aligned[k].text) =
                    IF k = last THEN slice(words, from, tw)
                    ELSE slice(words, from, from + n)

\* C9 (as claimed): each window is allotted max(1, round(totalWords *
\* windowDuration / totalDuration)) words, taken in order from the words
\* not yet assigned, the rest being appended to the last window.
C9_RoundedAllotment == FallbackApplies => DistributionFollows(RoundedShare)

\* C9 (amended): the allotment is max(1, int(totalWords * windowDuration /
\* totalDuration)), the proportional share truncated, not rounded.
C9_TruncatedAllotment == FallbackApplies => DistributionFollows(FlooredShare)

\* three words over two equal windows: one word each (1.5 truncated), the
\* third word appended to the last window
C9_Witness ==
    /\ FallbackApplies
    /\ Len(aligned) = 2
    /\ aligned[1].text = <<"a">>
    /\ aligned[2].text = <<"b", SPACE, "c">>

(***************************************************************************)
(* Properties of the returned segment lists                                *)
(***************************************************************************)
HasText(seg) == "text" \in DOMAIN seg

WindowsOf(list) ==
    [k \in 1..Len(list) |-> Window(list[k].speaker, list[k].start, list[k].end)]

\* the latest end time of a timestamped token (0 without tokens)
RECURSIVE LastTokenEnd(_)
LastTokenEnd(tokens) ==
    IF tokens = <<>> THEN 0
    ELSE max(Head(tokens).end, LastTokenEnd(Tail(tokens)))

\* C11: every segment returned by transcribe_with_diarization and by
\* map_transcript_to_diarization has a text field holding a string, never
\* missing, on every path; when the full text is empty or the total
\* diarization duration is zero every window's text is "".
C11_TextAlwaysPresent ==
    /\ fpc = "done" => \A i \in 1..Len(final_result) : HasText(final_result[i])
    /\ apc \in {"no_diarization", "fallback", "tokens"} =>
          /\ \A k \in 1..Len(aligned) : HasText(aligned[k])
          /\ (apc = "fallback" /\ ~FallbackApplies) =>
                 /\ Len(aligned) = Len(diarization_data)
                 /\ \A k \in 1..Len(aligned) : aligned[k].text = <<>>

\* C12: with an empty diarization the stage returns exactly one synthetic
\* segment: a placeholder speaker, a window covering the whole recording
\* (from 0 to at least the end of the last token), the full transcript as
\* text.
C12_SyntheticSegment ==
    /\ (fpc = "done" /\ diarization_segments = <<>>) => Len(final_result) = 1
    /\ apc = "no_diarization" =>
          /\ Len(aligned) = 1
          /\ aligned[1].speaker \notin Speakers
          /\ aligned[1].text = whisper_result.text
          /\ aligned[1].start = 0
          /\ aligned[1].end >= LastTokenEnd(whisper_segments(whisper_result))

\* C13: on the token path the (speaker, start, end) sequence of the output
\* is merge(diarization); windows A [0,3], A [3,6], B [6,9] with tokens
\* evenly covering 0 to 9 s give A [0,6] and B [6,9], both with text.
C13_TokenPathWindowsAreMerge ==
    apc = "tokens" =>
        /\ WindowsOf(aligned) = RunCollapse(diarization_data)
        /\ (<<whisper_result, diarization_data>> = EndToEndExample =>
               /\ WindowsOf(aligned) = <<Window("A", 0, 6), Window("B", 6, 9)>>
               /\ \A k \in 1..2 : NonEmptyText(aligned[k].text))

C13_Witness ==
    /\ apc = "tokens"
    /\ <<whisper_result, diarization_data>> = EndToEndExample
    /\ Len(aligned) = 2
    /\ aligned[1].text = LetterText(6)
    /\ aligned[2].end = 9

LastUpdate == task_updates[Len(task_updates)]

FailReported == \E i \in 1..Len(task_updates) : task_updates[i].state = "FAIL"

\* the pipeline has stopped in FAILED: the task raised, the task runner
\* holds state FAIL with a detail text, call.status is FAIL
PipelineFailed ==
    /\ ppc = "raised"
    /\ call_status = "FAIL"
    /\ task_updates # <<>>
    /\ LastUpdate.state = "FAIL"
    /\ LastUpdate.text # <<>>

Count(tag) == Cardinality({i \in 1..Len(events) : events[i] = tag})

\* C14: whenever submit yields no job id (HTTP 400, 402 and 429 give
\* INVALID_REQUEST, PAYMENT_REQUIRED and TOO_MANY_REQUESTS with job id
\* None) the pipeline ends FAILED, call status FAIL, with submit called
\* exactly once and no check_job, transcription, analysis or persistence.
C14_SubmitWithoutJobFails ==
    /\ (events # <<>> /\ job_id = <<>>) =>
          /\ PipelineFailed
          /\ row_status = "FAIL"
          /\ events = <<"submit">>
          /\ ~last_check.polled
          /\ ~saved.done
    /\ submit(ErrorCode(400)) = Return(INVALID_REQUEST, <<>>, NoneData)
    /\ submit(ErrorCode(402)) = Return(PAYMENT_REQUIRED, <<>>, NoneData)
    /\ submit(ErrorCode(429)) = Return(TOO_MANY_REQUESTS, <<>>, NoneData)
    /\ Cardinality({INVALID_REQUEST, PAYMENT_REQUIRED, TOO_MANY_REQUESTS}) = 3

\* submit answered 402: the run stopped after its only collaborator call
C14_Witness ==
    /\ ppc = "raised"
    /\ events = <<"submit">>
    /\ job_id = <<>>
    /\ \E i \in 1..Len(task_updates) :
          /\ task_updates[i].status = PAYMENT_REQUIRED
          /\ task_updates[i].text = DetailSubmitError
    /\ row_status = "FAIL"

\* the last check_job call returned a status that ends the polling and is
\* not succeeded
PollEndedUnsuccessful ==
    /\ last_check.polled
    /\ ~last_check.result.raised
    /\ last_check.result.status \notin {CREATED, PENDING, RUNNING, SUCCEEDED}

\* C15: when polling ends with a terminal status other than succeeded the
\* pipeline ends FAILED and the reason the task runner holds once the run
\* has stopped (its last state update) includes the raw provider payload.
C15_FailureReasonHasPayload ==
    PollEndedUnsuccessful =>
        /\ PipelineFailed
        /\ LastUpdate.payload.present
        /\ LastUpdate.payload.data = last_check.result.data

\* the last check_job call returned succeeded
PollSucceeded ==
    /\ last_check.polled
    /\ ~last_check.result.raised
    /\ last_check.result.status = SUCCEEDED

\* C16: a succeeded payload without `output`, and one with `output` but
\* without `output.diarization`, end the pipeline FAILED, and the final
\* reason held by the task runner names the missing field, so the two
\* reasons differ.
C16_MissingFieldReasons ==
    /\ DetailNoOutput # DetailNoDiarization
    /\ PollSucceeded =>
          LET data == last_check.result.data IN
          /\ "output" \notin data.keys =>
                 /\ PipelineFailed
                 /\ LastUpdate.text = DetailNoOutput
          /\ ("output" \in data.keys /\ data.output.keys # {}
                  /\ "diarization" \notin data.output.keys) =>
                 /\ PipelineFailed
                 /\ LastUpdate.text = DetailNoDiarization

\* the stages a step can leave the task in when its stage did not fail
LaterStages == {"submit", "poll", "transcribe", "analyze", "persist", "done"}

\* C17: a failure in any stage moves the pipeline to FAILED with a
\* recorded reason; once FAIL has been reported no collaborator is called
\* and the run never becomes DONE; submit, transcription, analysis and
\* persistence are each called at most once in a run.
C17_FailureStopsThePipeline ==
    /\ [](ppc \notin ({"idle", "start"} \cup LaterStages) => PipelineFailed)
    /\ [](FailReported =>
              /\ PipelineFailed
              /\ ppc # "done" /\ call_status # "SUCCESS" /\ row_status # "SUCCESS"
              /\ ~saved.done)
    /\ [][/\ (events' # events /\ ppc' \notin LaterStages) => PipelineFailed'
          /\ FailReported => (events' = events /\ ppc' = ppc
                                  /\ call_status' = call_status)]_vars
    /\ [](\A tag \in {"submit", "transcribe", "analyze", "save"} : Count(tag) <= 1)

\* the persistence stage failed after every earlier stage had run once
C17_Witness ==
    /\ PipelineFailed
    /\ Count("check_job") >= 2
    /\ events[Len(events)] = "save"
    /\ \A tag \in {"submit", "transcribe", "analyze", "save"} : Count(tag) = 1

\* C18: DONE (call status SUCCESS) is reached only after, in this order,
\* submit returned a job id, a poll observed succeeded with a diarization
\* list, the transcription of all segments completed, the analysis was
\* called with exactly the transcribed segments, its result was persisted.
C18_DoneOnlyAfterAllStages ==
    (ppc = "done" \/ call_status = "SUCCESS" \/ row_status = "SUCCESS") =>
        /\ ppc = "done" /\ call_status = "SUCCESS" /\ row_status = "SUCCESS"
        /\ ~FailReported
        /\ Count("check_job") >= 1
        /\ events = <<"submit">> \o [i \in 1..Count("check_job") |-> "check_job"]
                        \o <<"transcribe", "analyze", "save">>
        /\ job_id # <<>>
        /\ PollSucceeded
        /\ "diarization" \in last_check.result.data.output.keys
        /\ task_segments = last_check.result.data.output.diarization
        /\ WindowsOf(diarization_with_text) = RunCollapse(task_segments)
        /\ analysis_input = diarization_with_text
        /\ analysis = "dict"
        /\ saved = [done |-> TRUE, raw_diarization |-> diarization_with_text]

\* a run that polled twice and transcribed two windows, both with text
C18_Witness ==
    /\ ppc = "done"
    /\ row_status = "SUCCESS"
    /\ Count("check_job") = 2
    /\ Len(saved.raw_diarization) = 2
    /\ \A k \in 1..2 : saved.raw_diarization[k].text # <<>>

\* C19: check_job returns a status for every provider response, UNKNOWN
\* when the status string is missing or not recognized, without raising;
\* the orchestrator takes that one response as terminal and ends FAILED.
C19_CheckJobAlwaysReturnsStatus ==
    (last_check.polled /\ last_check.resp.kind = "http" /\ last_check.resp.json) =>
        LET resp == last_check.resp
            result == last_check.result
            recognized == "status" \in resp.keys /\ lower(resp.status) \in StatusValues
        IN /\ ~result.raised
           /\ result.status \in StatusValues
           /\ ~recognized =>
                  /\ result.status = UNKNOWN
                  /\ PipelineFailed
                  /\ events[Len(events)] = "check_job"

(***************************************************************************)
(* Audio cut points: aisha_stt.transcribe_with_diarization lines 103-109   *)
(* and audio_utils.split_audio_into_segments lines 178-184.                *)
(* A window time of t ticks is t / (1000 * CutTicksPerMs) seconds, so the  *)
(* product time * 1000 is the exact rational t / CutTicksPerMs.            *)
(***************************************************************************)
CutMaxLen == 3
CutMaxTime == 4
CutTicksPerMs == 2

\* seg["start"] * 1000, start * 1000: milliseconds, an exact rational
times_1000(t) == [num |-> t, den |-> CutTicksPerMs]

\* int(x) of a rational
int(x) == int_quotient(x.num, x.den)

\* variant: the smallest whole number not below x (x >= 0)
int_rounded_up(x) == int_quotient(x.num + x.den - 1, x.den)

\* aisha_stt lines 106-107: start_ms, end_ms
start_ms(seg) == int(times_1000(seg.start))

\* variant: the end of a window rounded up to the next millisecond
end_ms_rounded_up(seg) == int_rounded_up(times_1000(seg.end))

end_ms(seg) == int(times_1000(seg.end))

\* aisha_stt lines 105-109: full_audio[start_ms:end_ms] of every window
aisha_cut(segs) ==
    [i \in 1..Len(segs) |-> [start_ms |-> start_ms(segs[i]), end_ms |-> end_ms(segs[i])]]

\* audio_utils lines 178-184: audio[start_ms:end_ms] of every (start, end)
split_audio_cut(segs) ==
    [i \in 1..Len(segs) |->
        [start_ms |-> times_1000(segs[i].start), end_ms |-> times_1000(segs[i].end)]]

(***************************************************************************)
(* Specification SpecCut: both functions cut every ordered window list     *)
(* within the bounds.                                                      *)
(***************************************************************************)
CutInputs == OrderedSeqs(CutMaxLen, CutMaxTime, {"A"})

CutInit ==
    /\ MergeIdle
    /\ FanIdle
    /\ AlignIdle
    /\ PipeIdle
    /\ BaseIdle
    /\ cut_windows \in CutInputs
    /\ aisha_cuts = <<>>
    /\ split_cuts = <<>>
    /\ cdone = {}

\* transcribe_with_diarization, the loop of lines 104-109
AishaCut ==
    /\ "aisha" \notin cdone
    /\ aisha_cuts' = aisha_cut(cut_windows)
    /\ cdone' = cdone \cup {"aisha"}
    /\ UNCHANGED <<mergeVars, fanVars, alignVars, pipeVars, baseVars, cut_windows, split_cuts>>

\* split_audio_into_segments, the loop of lines 179-184
SplitAudioCut ==
    /\ "split" \notin cdone
    /\ split_cuts' = split_audio_cut(cut_windows)
    /\ cdone' = cdone \cup {"split"}
    /\ UNCHANGED <<mergeVars, fanVars, alignVars, pipeVars, baseVars, cut_windows, aisha_cuts>>

CutNext == AishaCut \/ SplitAudioCut

SpecCut == CutInit /\ [][CutNext]_vars

\* x is the whole number of milliseconds at or below t ticks
IsFloorMs(x, t) == x * CutTicksPerMs <= t /\ t < (x + 1) * CutTicksPerMs

\* the rational x is exactly t ticks
IsExactMs(x, t) == x.num * CutTicksPerMs = t * x.den

\* windows i and i + 1 abut
Abut(i) == i + 1 <= Len(cut_windows) /\ cut_windows[i].end = cut_windows[i + 1].start

\* millisecond m lies in the range cut for a window by aisha_stt
InAishaRange(m, c) == c.start_ms <= m /\ m < c.end_ms

\* the instant of k ticks lies in the range cut for a window by audio_utils
InSplitRange(k, c) ==
    /\ c.start_ms.num * CutTicksPerMs <= k * c.start_ms.den
    /\ k * c.end_ms.den < c.end_ms.num * CutTicksPerMs

AishaCutsFloored ==
    \A i \in 1..Len(aisha_cuts) :
        /\ IsFloorMs(aisha_cuts[i].start_ms, cut_windows[i].start)
        /\ IsFloorMs(aisha_cuts[i].end_ms, cut_windows[i].end)

AishaContiguous ==
    \A i \in 1..Len(aisha_cuts) : Abut(i) =>
        /\ aisha_cuts[i].end_ms = aisha_cuts[i + 1].start_ms
        /\ \A m \in aisha_cuts[i].start_ms..(aisha_cuts[i + 1].end_ms - 1) :
               InAishaRange(m, aisha_cuts[i]) # InAishaRange(m, aisha_cuts[i + 1])

SplitContiguous ==
    \A i \in 1..Len(split_cuts) : Abut(i) =>
        /\ split_cuts[i].end_ms = split_cuts[i + 1].start_ms
        /\ \A k \in cut_windows[i].start..(cut_windows[i + 1].end - 1) :
               InSplitRange(k, split_cuts[i]) # InSplitRange(k, split_cuts[i + 1])

\* C21 (as stated): in both functions the cut points are the window times
\* floored to whole milliseconds, start and end alike, and the ranges of
\* abutting windows are contiguous.
C21_CutsFlooredToMilliseconds ==
    /\ "aisha" \in cdone => (AishaCutsFloored /\ AishaContiguous)
    /\ "split" \in cdone =>
           \A i \in 1..Len(split_cuts) :
               /\ split_cuts[i].start_ms.den = 1
               /\ split_cuts[i].end_ms.den = 1
               /\ IsFloorMs(split_cuts[i].start_ms.num, cut_windows[i].start)
               /\ IsFloorMs(split_cuts[i].end_ms.num, cut_windows[i].end)

\* C21 (amended): transcribe_with_diarization floors start and end to whole
\* milliseconds; split_audio_into_segments hands the unrounded products
\* start * 1000 and end * 1000 to the slice; in both, abutting windows get
\* the same cut point for the end of one and the start of the next, so no
\* instant of audio lies in both ranges or in neither.
C21_CutsAreContiguous ==
    /\ "aisha" \in cdone => (AishaCutsFloored /\ AishaContiguous)
    /\ "split" \in cdone =>
           /\ \A i \in 1..Len(split_cuts) :
                  /\ IsExactMs(split_cuts[i].start_ms, cut_windows[i].start)
                  /\ IsExactMs(split_cuts[i].end_ms, cut_windows[i].end)
           /\ SplitContiguous

\* two windows abutting between two whole milliseconds, cut by both functions
C21_Witness ==
    /\ cdone = {"aisha", "split"}
    /\ Len(cut_windows) >= 2
    /\ Abut(1)
    /\ cut_windows[1].end % CutTicksPerMs # 0
    /\ cut_windows[1].start < cut_windows[1].end
    /\ cut_windows[2].start < cut_windows[2].end

(***************************************************************************)
(* Token-based alignment, per window                                       *)
(***************************************************************************)
\* the tokens collected for window k: midpoint in the inclusive range, text truthy
CollectedTokens(k) ==
    {t \in 1..Len(whisper_segments(whisper_result)) :
        /\ k \in ContainingWindows(whisper_segments(whisper_result)[t], diarization_data)
        /\ token_text(whisper_segments(whisper_result)[t]) # <<>>}

\* the members of a set of token indices in increasing order
InTokenOrder(I) ==
    CHOOSE f \in [1..Cardinality(I) -> I] :
        \A i, j \in 1..Cardinality(I) : i < j => f[i] < f[j]

WordIn(ws, text) ==
    \E j \in 1..Len(WordsOf(text)) : WordsOf(text)[j] = strip(token_text(ws))

\* C22: in token-based alignment a token's text appears in a window's text
\* only if the token midpoint lies in the window's inclusive range; a token
\* whose midpoint lies in no window appears nowhere in the output; and a
\* window's text is the trimmed texts of its tokens, in token order, joined
\* by single spaces.
C22_MidpointRule ==
    apc = "tokens" =>
        LET tokens == whisper_segments(whisper_result) IN
        /\ Len(align_result) = Len(diarization_data)
        /\ \A t \in 1..Len(tokens) : \A k \in 1..Len(diarization_data) :
              (strip(token_text(tokens[t])) # <<>> /\ WordIn(tokens[t], align_result[k].text))
                  => k \in ContainingWindows(tokens[t], diarization_data)
        /\ \A t \in 1..Len(tokens) :
              (strip(token_text(tokens[t])) # <<>>
               /\ ContainingWindows(tokens[t], diarization_data) = {})
                  => \A n \in 1..Len(aligned) : ~WordIn(tokens[t], aligned[n].text)
        /\ \A k \in 1..Len(diarization_data) :
              LET order == InTokenOrder(CollectedTokens(k)) IN
              align_result[k].text =
                  join([j \in 1..Len(order) |-> strip(token_text(tokens[order[j]]))])

\* two padded tokens collected in order for one window, a third token in a gap
C22_Witness ==
    /\ apc = "tokens"
    /\ <<whisper_result, diarization_data>> = GapExample
    /\ align_result[1].text = <<"a", SPACE, "b">>
    /\ align_result[2].text = <<>>
    /\ aligned = <<[speaker |-> "A", start |-> 0, end |-> 2, text |-> <<"a", SPACE, "b">>],
                   [speaker |-> "B", start |-> 6, end |-> 8, text |-> <<>>]>>

(***************************************************************************)
(* Polling                                                                 *)
(***************************************************************************)
\* the last check_job call returned a status of a job that is not finished
PollWaiting ==
    /\ last_check.polled
    /\ ~last_check.result.raised
    /\ last_check.result.status \in {CREATED, PENDING, RUNNING}

\* C23: after a check_job call the orchestrator is about to poll again
\* exactly when the returned status is created, pending or running; once a
\* call has ended otherwise no further check_job call is made in the run;
\* and transcription is called only when the last status is succeeded.
C23_PollWhileInProgress ==
    /\ [](last_check.polled => (ppc = "poll" <=> PollWaiting))
    /\ [][(last_check.polled /\ ~PollWaiting) =>
              (last_check' = last_check /\ Count("check_job")' = Count("check_job"))]_vars
    /\ [](Count("transcribe") > 0 => PollSucceeded)
    /\ [][(ppc' = "transcribe" /\ ppc # "transcribe") => PollSucceeded']_vars

\* two polls, the first answered running, the second succeeded, and the
\* transcription called
C23_Witness ==
    /\ Count("check_job") = 2
    /\ PollSucceeded
    /\ Count("transcribe") = 1
    /\ ppc \in {"analyze", "raised"}

\* the run is over: the task returned (DONE) or raised (FAILED)
PipeTerminal == ppc \in {"done", "raised"}

\* the last check_job call ended otherwise than by returning created,
\* pending or running
PollEnded == last_check.polled /\ ~PollWaiting

\* the provider answered the last check_job call with a status: one of the
\* codes 400, 402, 429, or a JSON body (without a status field: unknown)
ProviderStatusReported ==
    /\ last_check.polled
    /\ last_check.resp.kind = "http"
    /\ (last_check.resp.status_code \in {400, 402, 429} \/ last_check.resp.json)

\* C24 (as stated): a run that polls is over only when the provider has
\* reported a status outside created, pending, running.
C24_EndsOnlyOnReportedStatus ==
    (PipeTerminal /\ last_check.polled) => (ProviderStatusReported /\ PollEnded)

\* C24 (amended): the number of polls is unbounded: while polling another
\* call answered created, pending or running is always possible and keeps
\* the run polling; the run leaves polling only with a check_job call that
\* ended otherwise (another status, or the call raised), and from then on
\* it reaches DONE or FAILED.
C24_PollingEndsWithTheCall ==
    /\ [](ppc = "poll" => ENABLED <<CheckJob /\ PollWaiting'>>_vars)
    /\ [](PollWaiting => ppc = "poll")
    /\ [][(ppc = "poll" /\ ppc' # "poll") => PollEnded']_vars
    /\ []((PipeTerminal /\ last_check.polled) => PollEnded)
    /\ (PollEnded ~> PipeTerminal)

\* the run polled beyond the recorded history and ended FAILED because the
\* last check_job call raised on a failed request
C24_Witness ==
    /\ PipeTerminal
    /\ Count("check_job") = PipeMaxPolls
    /\ last_check.resp = RequestError
    /\ last_check.result.raised
    /\ ~ProviderStatusReported

(***************************************************************************)
(* Progress updates                                                        *)
(***************************************************************************)
IsUpper(c) == \E i \in 1..Len(UpperLetters) : UpperLetters[i] = c

\* the progress message written for the stage of each collaborator
StageMessage(tag) ==
    CASE tag = "submit" -> MsgLoading
      [] tag = "check_job" -> MsgSubmitted
      [] tag = "transcribe" -> MsgTranscribing
      [] tag = "analyze" -> MsgGenerating
      [] tag = "save" -> MsgSaving

StageOrder == <<"submit", "check_job", "transcribe", "analyze", "save">>

\* text is msg with an upper-case first letter and no other upper-case letter
IsCapitalized(text, msg) ==
    /\ Len(text) = Len(msg)
    /\ IsUpper(text[1])
    /\ \A i \in 2..Len(text) : ~IsUpper(text[i])
    /\ lower(text) = lower(msg)

RunningUpdates ==
    {i \in 1..Len(task_updates) : task_updates[i].state = "RUNNING"}

\* C25: when the collaborator of a stage (submit, check_job, transcription,
\* analysis, persistence) is first called, the last update reported is the
\* RUNNING update of that stage and its message is capitalized; the RUNNING
\* updates are reported in stage order; no RUNNING update follows a FAIL
\* update.
C25_ProgressBeforeEachStage ==
    /\ [][\A n \in 1..Len(StageOrder) :
             (Count(StageOrder[n]) = 0 /\ Count(StageOrder[n])' = 1) =>
                 /\ Len(task_updates) = n
                 /\ LastUpdate.state = "RUNNING"
                 /\ IsCapitalized(LastUpdate.text, StageMessage(StageOrder[n]))]_vars
    /\ [](\A i \in RunningUpdates :
             /\ i <= Len(StageOrder)
             /\ \A j \in 1..i : task_updates[j].state = "RUNNING"
             /\ IsCapitalized(task_updates[i].text, StageMessage(StageOrder[i])))
    /\ [][FailReported => task_updates' = task_updates]_vars

\* a run that reported all five stages and returned
C25_Witness ==
    /\ ppc = "done"
    /\ Len(task_updates) = 5
    /\ RunningUpdates = 1..5
    /\ task_updates[3].text =
           <<"T", "r", "a", "n", "s", "c", "r", "i", "b", "i", "n", "g", " ", "a",
             "u", "d", "i", "o", " ", "w", "i", "t", "h", " ", "a", "i", "s", "h",
             "a", ".", ".", ".">>

(***************************************************************************)
(* The result container of transcribe_with_diarization                     *)
(***************************************************************************)
\* C26: each slot of the pre-sized result list is written at most once
\* while the calls run and exactly once by the time the function returns;
\* a write to slot i stores the outcome of the call submitted for index i
\* and touches no other slot; the function returns only when every slot
\* has been written and no call is queued or running.
C26_SlotsWrittenOnce ==
    /\ [](\A i \in 1..Len(results) : results[i].writes <= 1)
    /\ [][\A i \in 1..Len(results) :
             (Len(results') = Len(results) /\ results'[i] # results[i]) =>
                 /\ future[i].state = "finished"
                 /\ results'[i].writes = results[i].writes + 1
                 /\ results'[i].text =
                        (IF future[i].raised THEN <<>> ELSE future[i].value)
                 /\ \A j \in 1..Len(results) : j # i => results'[j] = results[j]]_vars
    /\ [](fpc = "done" =>
             /\ Len(results) = Len(audio_segments)
             /\ \A i \in 1..Len(results) :
                   /\ results[i].writes = 1
                   /\ future[i].state = "finished"
             /\ running = {}
             /\ workq = <<>>)

\* three calls, handed out in another order than submitted, one of them
\* failed, and the function returned
C26_Witness ==
    /\ fpc = "done"
    /\ Len(results) = 3
    /\ out_of_order
    /\ \E i \in 1..3 : failed[i]
    /\ \A i \in 1..3 : results[i].writes = 1

(***************************************************************************)
(* The merge operations and their input                                    *)
(***************************************************************************)
\* C27: no merge operation changes the list it received: the caller's
\* sequence and the speaker, start and end of each of its segments are
\* after the call what they were before.
\* (`segments` is the diarization as received, which the merge of
\* aisha_stt reads through copies; `diar_data` is the list handed to
\* split_audio_into_segments, equal to it before the call.)
C27_MergeLeavesInputUnchanged ==
    "split" \in mdone => diar_data = segments

(***************************************************************************)
(* The persisted status of the call                                        *)
(***************************************************************************)
\* C28: when the task has finished, by returning or by raising, the
\* committed status of the call is SUCCESS or FAIL, never RUNNING; it is
\* SUCCESS only if the task returned after the analysis was persisted; and
\* a run that reported FAIL has not committed SUCCESS.
C28_StatusSettledAtFinish ==
    /\ PipeTerminal => row_status \in {"SUCCESS", "FAIL"}
    /\ row_status = "SUCCESS" => (ppc = "done" /\ saved.done)
    /\ FailReported => row_status # "SUCCESS"

(***************************************************************************)
(* The three merge implementations side by side                            *)
(***************************************************************************)
\* the received windows as the per-window list whisper_api merges
WithEmptyText(segs) ==
    [k \in 1..Len(segs) |->
        [speaker |-> segs[k].speaker, start |-> segs[k].start, end |-> segs[k].end,
         text |-> <<>>]]

\* C29: for every ordered diarization sequence, speaker labels being
\* arbitrary strings, the merge of aisha_stt, the merge of whisper_api and
\* the merge loop of split_audio_into_segments produce the same sequence
\* of (speaker, start, end).
C29_MergesAgree ==
    {"merge", "split"} \subseteq mdone =>
        /\ WindowsOf(whisper_merge_consecutive_speakers(WithEmptyText(segments))) = merged
        /\ ~split_merged.raised
        /\ WindowsOf(split_merged.list) = merged

(***************************************************************************)
(* core.base_task.BaseTask: one task instance, several runs interleaved    *)
(***************************************************************************)
BaseMaxTasks == 3

\* the ids of the runs; a session is named by the order of its creation
TaskIds == 1..BaseMaxTasks

\* dict operations on self.sessions
dict_set(d, k, v) == [x \in DOMAIN d \cup {k} |-> IF x = k THEN v ELSE d[x]]
dict_pop(d, k) == [x \in DOMAIN d \ {k} |-> d[x]]

\* variant: the key of whichever run registered first
request_id_of_first(task_id) == CHOOSE k \in DOMAIN sessions : \A x \in DOMAIN sessions : k <= x

\* line 21: self.request.id, the id of the run executing in this thread
request_id(task_id) == task_id

BaseInit ==
    /\ MergeIdle
    /\ FanIdle
    /\ AlignIdle
    /\ PipeIdle
    /\ CutIdle
    /\ sessions = <<>>
    /\ tpc = [t \in TaskIds |-> "new"]
    /\ opened = [t \in TaskIds |-> 0]
    /\ popped = [t \in TaskIds |-> 0]
    /\ close_count = <<>>
    /\ seen = [t \in TaskIds |-> {}]

\* lines 10-12: self.sessions[task_id] = SessionLocal()
before_start(task_id) ==
    /\ tpc[task_id] = "new"
    /\ LET created == Len(close_count) + 1 IN
        /\ close_count' = Append(close_count, 0)
        /\ sessions' = dict_set(sessions, task_id, created)
        /\ opened' = [opened EXCEPT ![task_id] = created]
    /\ tpc' = [tpc EXCEPT ![task_id] = "started"]
    /\ UNCHANGED <<mergeVars, fanVars, alignVars, pipeVars, cutVars, popped, seen>>

\* lines 19-21: the task body reads self.session
session(task_id) ==
    /\ tpc[task_id] = "started"
    /\ request_id(task_id) \in DOMAIN sessions
    /\ seen' = [seen EXCEPT ![task_id] = @ \cup {sessions[request_id(task_id)]}]
    /\ tpc' = [tpc EXCEPT ![task_id] = "ran"]
    /\ UNCHANGED <<mergeVars, fanVars, alignVars, pipeVars, cutVars, sessions, opened,
                   popped, close_count>>

\* line 15: session = self.sessions.pop(task_id)
after_return_pop(task_id) ==
    /\ tpc[task_id] = "ran"
    /\ task_id \in DOMAIN sessions
    /\ popped' = [popped EXCEPT ![task_id] = sessions[task_id]]
    /\ sessions' = dict_pop(sessions, task_id)
    /\ tpc' = [tpc EXCEPT ![task_id] = "popped"]
    /\ UNCHANGED <<mergeVars, fanVars, alignVars, pipeVars, cutVars, opened, close_count, seen>>

\* lines 16-17: session.close()
after_return_close(task_id) ==
    /\ tpc[task_id] = "popped"
    /\ close_count' = [close_count EXCEPT ![popped[task_id]] = @ + 1]
    /\ tpc' = [tpc EXCEPT ![task_id] = "returned"]
    /\ UNCHANGED <<mergeVars, fanVars, alignVars, pipeVars, cutVars, sessions, opened,
                   popped, seen>>

BeforeStart == \E task_id \in TaskIds : before_start(task_id)
Session == \E task_id \in TaskIds : session(task_id)
AfterReturnPop == \E task_id \in TaskIds : after_return_pop(task_id)
AfterReturnClose == \E task_id \in TaskIds : after_return_close(task_id)

BaseNext == BeforeStart \/ Session \/ AfterReturnPop \/ AfterReturnClose

SpecBase == BaseInit /\ [][BaseNext]_vars

\* C30: for any interleaving of runs on one BaseTask instance, from its
\* before_start until its after_return a task id is mapped to exactly one
\* session, its own, and no two ids share a session; the session property
\* hands a run only the session of its own id; no session is closed more
\* than once and every session of a returned run has been closed once; once
\* all runs have returned the sessions map is empty.
C30_OneSessionPerTask ==
    /\ \A t \in TaskIds :
          /\ tpc[t] \in {"started", "ran"} <=> t \in DOMAIN sessions
          /\ t \in DOMAIN sessions => sessions[t] = opened[t]
          /\ seen[t] \subseteq {opened[t]}
          /\ tpc[t] = "returned" => close_count[opened[t]] = 1
          /\ tpc[t] \in {"started", "ran", "popped"} => close_count[opened[t]] = 0
    /\ \A t, u \in DOMAIN sessions : t # u => sessions[t] # sessions[u]
    /\ \A s \in 1..Len(close_count) : close_count[s] <= 1
    /\ (\A t \in TaskIds : tpc[t] = "returned") =>
          /\ DOMAIN sessions = {}
          /\ Len(close_count) = BaseMaxTasks

\* one run has returned while another, started before it, still holds its
\* session and a third has read its own
C30_Witness ==
    /\ tpc[2] = "returned"
    /\ tpc[1] = "ran"
    /\ tpc[3] = "started"
    /\ opened[1] < opened[2]
    /\ seen[1] = {opened[1]}
    /\ DOMAIN sessions = {1, 3}

====
